---- MODULE Spec2Model ----
(***************************************************************************)
(* Memory bridge and connector orchestration of Omni Engine.               *)
(*                                                                         *)
(*   Spec         the MemoryBridge facade (layers, catalog, fusion loop)    *)
(*                driven through its public methods, and                    *)
(*                OperatorCore.run_cycle over that bridge.                  *)
(*   SpecFusion   the witness network and the fusion loop with their nodes. *)
(*   SpecPool     MCPOrchestrator.execute_parallel: the caller's thread,    *)
(*                the pool's workers and the clock of the timeout.          *)
(*   SpecWriters  two threads on the ingestion path register_layer + add.   *)
(*   SpecLayers   layers of timestamped entries read through query,         *)
(*                get_layer and export_layer, and the catalog registered    *)
(*                with directly.                                            *)
(*   SpecReports  generate_recommendations on audit reports.                *)
(*   SpecEntries  MemoryEntry objects held by their creator while layers    *)
(*                and the witness log refer to them.                        *)
(*   SpecOperator OperatorCore.run_cycle over a bridge with subscribers.    *)
(*   SpecConstruct MemoryBridge(...) on objects of the caller.              *)
(*   SpecCycle    one call of FusionLoop.cycle, statement by statement,     *)
(*                with nodes whose apply_update queues further entries.     *)
(*                                                                         *)
(* A name (layer name, catalog name) is a sequence of symbols; the symbol   *)
(* " " stands for a whitespace character, every other symbol for a run of  *)
(* non-whitespace characters.                                              *)
(***************************************************************************)
EXTENDS Integers, Sequences, FiniteSets, TLC

VARIABLES
    heap,         \* MemoryLayer objects, by identity (index): [name, entries]
    layers,       \* MemoryBridge.layers: layer name -> MemoryLayer object
    catalog,      \* McpCatalog._functions, in dict insertion order
    log,          \* WitnessNetwork.log
    subscribers,  \* WitnessNetwork.subscribers
    inbound,      \* per node: the entries apply_update was invoked with
    outbound,     \* per node: the entries its next fetch_updates() returns
    connectors,   \* OperatorCore.connectors, in dict insertion order
    call,         \* the last public call: its arguments and how it ended
    config,       \* MCPConfiguration: parallel_execution, max_workers
    mcp_connectors,     \* MCPOrchestrator.connectors: what each gather() does
    pmain,        \* where the thread calling execute_parallel is
    task,         \* per connector: the state of its future
    results,      \* the results dict of execute_parallel
    execution_history,  \* MCPOrchestrator.execution_history
    timedOut,     \* timeout_seconds have passed since as_completed was called
    late,         \* the connectors that had not completed at that moment
    wpc,          \* per writer: where it is in register_layer + add
    wlayer,       \* per writer: its local variable layer (0 for None)
    wbatch,       \* per writer: the entries it ingests
    wi,           \* per writer: how many of them it has added
    objects,      \* SpecEntries: MemoryEntry objects, by identity (index)
    cycle,        \* SpecCycle: where the call of FusionLoop.cycle is
    given         \* what MemoryBridge(...) was given, and what it kept of it

bridgeVars == <<heap, layers, catalog, log, subscribers, inbound, outbound,
                connectors, call>>
poolVars == <<config, mcp_connectors, pmain, task, results,
              execution_history, timedOut, late>>
writerVars == <<wpc, wlayer, wbatch, wi>>
extraVars == <<objects, cycle, given>>

vars == <<bridgeVars, poolVars, writerVars, extraVars>>

----------------------------------------------------------------------------
(* Bounds of the model. *)

MaxStored == 3        \* Spec: entries held in all layers together
MaxLog == 1           \* Spec: entries in the witness log
MaxQueued == 1        \* Spec: entries waiting in the nodes' queues together
MaxConnectors == 2    \* Spec: connectors registered with the operator
FusionMaxLog == 2     \* SpecFusion: entries in the witness log
FusionMaxQueued == 2  \* SpecFusion: entries waiting in the nodes' queues
MaxSubscribers == 2   \* SpecFusion: registrations with the witness network
MaxNodes == 2         \* length of the node sequence given to sync
MaxWorkers == 2       \* SpecPool: config.max_workers
MaxPoolConnectors == 3  \* SpecPool: connectors of the orchestrator
MaxBatch == 2         \* SpecWriters: entries one writer ingests
MaxHeld == 2          \* SpecLayers: entries held in all layers together
MaxTime == 2          \* SpecLayers: instants 0..MaxTime
MaxAudits == 2        \* SpecReports: audits in a report
MaxProduced == 2      \* SpecReports: produced of an audit
MaxObjects == 2       \* SpecEntries: MemoryEntry objects constructed
MaxRefs == 2          \* SpecEntries: references held by layers and log each
MaxReactions == 2     \* SpecCycle: entries queued by apply_update handlers

----------------------------------------------------------------------------
(* Names and entries. *)

NameA == <<"a">>
NameASpace == <<"a", " ">>
NameBlank == <<" ">>
AlertsLayer == <<"ingestion_alerts">>
LayerNames == {NameA, NameASpace, NameBlank, AlertsLayer}
NameEmpty == <<>>

EntryA1 == [layer |-> NameA, content |-> "doc1"]
EntryA2 == [layer |-> NameA, content |-> "doc2"]
EntryBlank == [layer |-> NameBlank, content |-> "doc1"]
EntryAlert == [layer |-> AlertsLayer, content |-> "dependency missing"]

\* The entries the nodes produce and callers add or broadcast.
EntryPool == {EntryA1, EntryA2, EntryBlank}

Nodes == {"n1", "n2", "n3"}
NoOrigin == "None"

\* IntelligenceNode.name: n1 and n2 are distinct objects carrying one name.
NodeName(n) == IF n = "n3" THEN "B" ELSE "A"

\* The nodes whose apply_update raises during one call: none, or n3.
RaisingChoices == {{}, {"n3"}}

EmptyMap == [x \in {} |-> 0]

IsSpace(ch) == ch = " "

RECURSIVE LStrip(_)
LStrip(s) == IF s # <<>> /\ IsSpace(Head(s)) THEN LStrip(Tail(s)) ELSE s

RECURSIVE RStrip(_)
RStrip(s) ==
    IF s # <<>> /\ IsSpace(s[Len(s)])
    THEN RStrip(SubSeq(s, 1, Len(s) - 1))
    ELSE s

\* str.strip()
Strip(s) == RStrip(LStrip(s))

RECURSIVE Flatten(_)
Flatten(ss) == IF ss = <<>> THEN <<>> ELSE Head(ss) \o Flatten(Tail(ss))

RECURSIVE SumLen(_)
SumLen(ss) == IF ss = <<>> THEN 0 ELSE Len(Head(ss)) + SumLen(Tail(ss))

RECURSIVE SetSumLen(_, _)
SetSumLen(f, S) ==
    IF S = {} THEN 0
    ELSE LET x == CHOOSE y \in S : TRUE
         IN  Len(f[x]) + SetSumLen(f, S \ {x})

Count(seq, x) == Cardinality({i \in 1..Len(seq) : seq[i] = x})

\* Sequences over S of length at most n.
SeqsUpTo(S, n) == UNION {[1..k -> S] : k \in 0..n}

----------------------------------------------------------------------------
(* memory_bridge/layer.py *)

NewLayer(name) == [name |-> name, entries |-> <<>>]

\* A mutation of MemoryLayerAdd: the layer check is dropped.
MemoryLayerAddUnchecked(h, id, entry) ==
    [heap |-> [h EXCEPT ![id].entries = Append(@, entry)], ok |-> TRUE]

\* A mutation of MemoryLayerAdd: the entry goes to the front of the list.
MemoryLayerAddFront(h, id, entry) ==
    IF entry.layer # h[id].name
    THEN [heap |-> h, ok |-> FALSE]
    ELSE [heap |-> [h EXCEPT ![id].entries = <<entry>> \o @], ok |-> TRUE]

\* MemoryLayer.add on the object id of heap h.
MemoryLayerAdd(h, id, entry) ==
    IF entry.layer # h[id].name
    THEN [heap |-> h, ok |-> FALSE]
    ELSE [heap |-> [h EXCEPT ![id].entries = Append(@, entry)], ok |-> TRUE]

\* MemoryLayer.all of the layer registered under name.
LayerAll(h, ls, name) == h[ls[name]].entries

----------------------------------------------------------------------------
(* memory_bridge/catalog.py *)

FetchPrefix == "memory.fetch_"

\* FunctionSpec built by MemoryBridge._register_layer_spec: __post_init__
\* strips the name.
LayerFunctionSpec(name) ==
    [name |-> Strip(<<FetchPrefix>> \o name), tags |-> <<"memory", name>>]

CatalogIndex(cat, specName) == {i \in 1..Len(cat) : cat[i].name = specName}

\* A mutation of CatalogRegister: the spec is always appended.
CatalogRegisterAppending(cat, spec, replace) ==
    [catalog |-> Append(cat, spec), ok |-> TRUE]

\* McpCatalog.register
CatalogRegister(cat, spec, replace) ==
    LET at == CatalogIndex(cat, spec.name)
    IN  IF at # {} /\ ~replace THEN [catalog |-> cat, ok |-> FALSE]
        ELSE IF at # {}
        THEN [catalog |-> [i \in 1..Len(cat) |->
                              IF i \in at THEN spec ELSE cat[i]],
              ok |-> TRUE]
        ELSE [catalog |-> Append(cat, spec), ok |-> TRUE]

\* McpCatalog.describe
Describe(cat) == cat

----------------------------------------------------------------------------
(* memory_bridge/bridge.py: operations on a store [heap, layers, catalog] *)

Store == [heap |-> heap, layers |-> layers, catalog |-> catalog]

\* MemoryBridge._register_layer_spec
RegisterLayerSpec(cat, name) ==
    CatalogRegister(cat, LayerFunctionSpec(name), TRUE).catalog

\* A mutation of BridgeRegisterLayer: only the empty name is refused.
BridgeRegisterLayerEmptyOnly(st, name) ==
    IF name = <<>>
    THEN [store |-> st, ret |-> 0, ok |-> FALSE]
    ELSE IF name \in DOMAIN st.layers
    THEN [store |-> st, ret |-> st.layers[name], ok |-> TRUE]
    ELSE LET id == Len(st.heap) + 1
         IN  [store |-> [heap |-> Append(st.heap, NewLayer(name)),
                         layers |-> st.layers @@ (name :> id),
                         catalog |-> RegisterLayerSpec(st.catalog, name)],
              ret |-> id, ok |-> TRUE]

\* MemoryBridge.register_layer: ret is the returned object, 0 when it raised.
BridgeRegisterLayer(st, name) ==
    IF Strip(name) = <<>>
    THEN [store |-> st, ret |-> 0, ok |-> FALSE]
    ELSE IF name \in DOMAIN st.layers
    THEN [store |-> st, ret |-> st.layers[name], ok |-> TRUE]
    ELSE LET id == Len(st.heap) + 1
         IN  [store |-> [heap |-> Append(st.heap, NewLayer(name)),
                         layers |-> st.layers @@ (name :> id),
                         catalog |-> RegisterLayerSpec(st.catalog, name)],
              ret |-> id, ok |-> TRUE]

\* A mutation of BridgeGetLayer: a missing layer is registered.
BridgeGetLayerCreating(st, name) == BridgeRegisterLayer(st, name)

\* MemoryBridge.get_layer: self.layers[name], a KeyError when absent.
BridgeGetLayer(st, name) ==
    IF name \in DOMAIN st.layers
    THEN [store |-> st, ret |-> st.layers[name], ok |-> TRUE]
    ELSE [store |-> st, ret |-> 0, ok |-> FALSE]

----------------------------------------------------------------------------
(* Timestamps: a datetime is an instant t with a tz that is "utc" (aware),  *)
(* "none" (tzinfo is None) or "no_offset" (a tzinfo whose utcoffset() is    *)
(* None).  memory_bridge/layer.py: query; memory_bridge/entry.py: to_dict.  *)

\* since=None
NoSince == [tz |-> "None", t |-> 0]

IsAware(ts) == ts.tz = "utc"

\* The entries added in SpecLayers: layer a, explicit timestamps.
TimedEntries ==
    {[layer |-> NameA, content |-> "doc1", timestamp |-> ts] :
        ts \in [tz : {"utc", "none"}, t : 0..MaxTime]}

\* The values of since.
Sinces == {NoSince} \cup [tz : {"utc", "none", "no_offset"}, t : 0..MaxTime]

\* A mutation of MemoryQuery: a since without offset is read as UTC.
MemoryQueryLenient(h, id, since) ==
    LET held == h[id].entries
    IN  IF since = NoSince
        THEN [ret |-> held, ok |-> TRUE, error |-> "None"]
        ELSE IF \E i \in 1..Len(held) : ~IsAware(held[i].timestamp)
        THEN [ret |-> <<>>, ok |-> FALSE, error |-> "TypeError"]
        ELSE [ret |-> SelectSeq(held, LAMBDA e : e.timestamp.t >= since.t),
              ok |-> TRUE, error |-> "None"]

\* MemoryLayer.query(since=since) on the object id of heap h.  Comparing an
\* entry's naive timestamp with an aware since raises TypeError.
MemoryQuery(h, id, since) ==
    LET held == h[id].entries
    IN  IF since = NoSince
        THEN [ret |-> held, ok |-> TRUE, error |-> "None"]
        ELSE IF ~IsAware(since)
        THEN [ret |-> <<>>, ok |-> FALSE, error |-> "ValueError"]
        ELSE IF \E i \in 1..Len(held) : ~IsAware(held[i].timestamp)
        THEN [ret |-> <<>>, ok |-> FALSE, error |-> "TypeError"]
        ELSE [ret |-> SelectSeq(held, LAMBDA e : e.timestamp.t >= since.t),
              ok |-> TRUE, error |-> "None"]

\* list(self.entries), a list comprehension: a new list object, which no
\* layer owns (owner 0).
NewList(items) == [owner |-> 0, items |-> items]

\* A mutation of MemoryLayerAll: the layer hands out its own list.
MemoryLayerAllShared(h, id) == [owner |-> id, items |-> h[id].entries]

\* MemoryLayer.all on the object id of heap h: the list object returned.
MemoryLayerAll(h, id) == NewList(h[id].entries)

\* The list object MemoryLayer.query returns: that of self.all() without
\* since, the one of the list comprehension otherwise.
MemoryQueryList(h, id, since) ==
    IF since = NoSince THEN MemoryLayerAll(h, id)
    ELSE NewList(MemoryQuery(h, id, since).ret)

\* What a caller does to a list it was returned.
ListMutations == {"clear", "append"}

\* list.clear(), list.append(entry)
MutateList(items, how, entry) ==
    IF how = "clear" THEN <<>> ELSE Append(items, entry)

\* datetime.isoformat(): the instant, with the offset when there is one.
IsoFormat(ts) == <<ts.t, IF ts.tz = "utc" THEN "+00:00" ELSE "">>

\* MemoryEntry.to_dict
ToDict(entry) ==
    [layer |-> entry.layer, content |-> entry.content,
     timestamp |-> IsoFormat(entry.timestamp)]

\* MemoryBridge.export_layer on a store.
BridgeExportLayer(st, name, since) ==
    LET g == BridgeGetLayer(st, name)
        q == MemoryQuery(g.store.heap, g.ret, since)
    IN  IF ~g.ok
        THEN [store |-> g.store, ret |-> <<>>, ok |-> FALSE,
              error |-> "KeyError"]
        ELSE [store |-> g.store,
              ret |-> [i \in 1..Len(q.ret) |-> ToDict(q.ret[i])],
              ok |-> q.ok, error |-> q.error]

\* The FunctionSpec objects registered with the catalog directly.
FunctionSpecs ==
    {[name |-> <<FetchPrefix, "a">>, tags |-> <<"v1">>],
     [name |-> <<FetchPrefix, "a">>, tags |-> <<"v2">>],
     [name |-> <<"tool">>, tags |-> <<"v1">>]}

\* McpCatalog.get: the spec under specName; the empty sequence for KeyError.
CatalogGet(cat, specName) ==
    IF CatalogIndex(cat, specName) = {} THEN <<>>
    ELSE <<cat[CHOOSE i \in CatalogIndex(cat, specName) : TRUE]>>

----------------------------------------------------------------------------
(* memory_bridge/witness.py *)

\* A mutation of IsOrigin: equality of the nodes' fields instead of identity.
IsOriginByName(node, origin) ==
    origin # NoOrigin /\ NodeName(node) = NodeName(origin)

\* "origin is not None and node is origin"
IsOrigin(node, origin) == origin # NoOrigin /\ node = origin

\* A mutation of Deliver: an exception of apply_update is swallowed and the
\* loop goes on.
RECURSIVE DeliverSwallowing(_, _, _, _, _)
DeliverSwallowing(inb, subs, entry, origin, raising) ==
    IF subs = <<>> THEN [inbound |-> inb, ok |-> TRUE]
    ELSE LET node == Head(subs)
         IN  IF IsOrigin(node, origin)
             THEN DeliverSwallowing(inb, Tail(subs), entry, origin, raising)
             ELSE DeliverSwallowing([inb EXCEPT ![node] = Append(@, entry)],
                                    Tail(subs), entry, origin, raising)

\* The subscriber loop of WitnessNetwork.broadcast; apply_update of a node in
\* raising raises, and the exception leaves the loop.
RECURSIVE Deliver(_, _, _, _, _)
Deliver(inb, subs, entry, origin, raising) ==
    IF subs = <<>> THEN [inbound |-> inb, ok |-> TRUE]
    ELSE LET node == Head(subs)
         IN  IF IsOrigin(node, origin)
             THEN Deliver(inb, Tail(subs), entry, origin, raising)
             ELSE LET got == [inb EXCEPT ![node] = Append(@, entry)]
                  IN  IF node \in raising
                      THEN [inbound |-> got, ok |-> FALSE]
                      ELSE Deliver(got, Tail(subs), entry, origin, raising)

\* WitnessNetwork.broadcast on a witness state [log, inbound].
WitnessBroadcast(w, subs, entry, origin, raising) ==
    LET d == Deliver(w.inbound, subs, entry, origin, raising)
    IN  [log |-> Append(w.log, entry), inbound |-> d.inbound, ok |-> d.ok]

----------------------------------------------------------------------------
(* memory_bridge/fusion.py *)

\* One iteration of the inner loop of FusionLoop.cycle on
\* f = [heap, layers, log, inbound, ok].
FusionEntry(f, subs, entry, node, raising) ==
    LET fresh == entry.layer \notin DOMAIN f.layers
        id == IF fresh THEN Len(f.heap) + 1 ELSE f.layers[entry.layer]
        h1 == IF fresh THEN Append(f.heap, NewLayer(entry.layer)) ELSE f.heap
        l1 == IF fresh THEN f.layers @@ (entry.layer :> id) ELSE f.layers
        added == MemoryLayerAdd(h1, id, entry)
        b == WitnessBroadcast([log |-> f.log, inbound |-> f.inbound],
                              subs, entry, node, raising)
    IN  IF ~added.ok
        THEN [heap |-> h1, layers |-> l1, log |-> f.log,
              inbound |-> f.inbound, ok |-> FALSE]
        ELSE [heap |-> added.heap, layers |-> l1, log |-> b.log,
              inbound |-> b.inbound, ok |-> b.ok]

\* A mutation of FusionBatch: the batch is taken from its end.
RECURSIVE FusionBatchFromEnd(_, _, _, _, _)
FusionBatchFromEnd(f, subs, batch, node, raising) ==
    IF batch = <<>> \/ ~f.ok THEN f
    ELSE FusionBatchFromEnd(
             FusionEntry(f, subs, batch[Len(batch)], node, raising),
             subs, SubSeq(batch, 1, Len(batch) - 1), node, raising)

\* The inner loop of FusionLoop.cycle over one node's batch.
RECURSIVE FusionBatch(_, _, _, _, _)
FusionBatch(f, subs, batch, node, raising) ==
    IF batch = <<>> \/ ~f.ok THEN f
    ELSE FusionBatch(FusionEntry(f, subs, Head(batch), node, raising),
                     subs, Tail(batch), node, raising)

\* FusionLoop.cycle on f = [heap, layers, log, inbound, outbound, ok]:
\* fetch_updates() of a node returns its queue and clears it.
RECURSIVE FusionCycle(_, _, _, _)
FusionCycle(f, subs, nodes, raising) ==
    IF nodes = <<>> \/ ~f.ok THEN f
    ELSE LET node == Head(nodes)
             batch == f.outbound[node]
             g == FusionBatch([heap |-> f.heap, layers |-> f.layers,
                               log |-> f.log, inbound |-> f.inbound,
                               ok |-> TRUE],
                              subs, batch, node, raising)
         IN  FusionCycle([heap |-> g.heap, layers |-> g.layers,
                          log |-> g.log, inbound |-> g.inbound,
                          outbound |-> [f.outbound EXCEPT ![node] = <<>>],
                          ok |-> g.ok],
                         subs, Tail(nodes), raising)

----------------------------------------------------------------------------
(* modules/operator.py, modules/connectors/__init__.py *)

\* The connector objects at hand; k1 and k3 carry one name.
Connectors == {"k1", "k2", "k3"}

\* Connector.name
ConnectorName(k) ==
    CASE k = "k1" -> "FILES"
      [] k = "k2" -> "ALERT"
      [] OTHER -> "FILES"

\* Connector.gather(): what it returns, or that it raises.  k1 and k2 are
\* StaticConnector objects, gather() of k3 raises.
Gather(k) ==
    CASE k = "k1" -> [raises |-> FALSE, entries |-> <<EntryA1, EntryA2>>]
      [] k = "k2" -> [raises |-> FALSE, entries |-> <<EntryAlert>>]
      [] OTHER -> [raises |-> TRUE, entries |-> <<>>]

\* A mutation of PutConnector: the connector is always added at the end.
PutConnectorAppending(ks, k) == Append(ks, k)

\* The connector ks holds under the name of k; "None" when there is none.
HeldAs(ks, k) ==
    LET at == {i \in 1..Len(ks) : ConnectorName(ks[i]) = ConnectorName(k)}
    IN  IF at = {} THEN "None" ELSE ks[CHOOSE i \in at : TRUE]

\* OperatorCore.register_connector: self.connectors[connector.name] = connector
PutConnector(ks, k) ==
    LET at == {i \in 1..Len(ks) : ConnectorName(ks[i]) = ConnectorName(k)}
    IN  IF at # {}
        THEN [i \in 1..Len(ks) |-> IF i \in at THEN k ELSE ks[i]]
        ELSE Append(ks, k)

\* A mutation of ConnectorAudit: produced counts the layers written to.
ConnectorAuditLayers(name, produced, layer_counts, alerts) ==
    [name |-> name, produced |-> Cardinality(DOMAIN layer_counts),
     layer_counts |-> layer_counts, alerts |-> alerts]

ConnectorAudit(name, produced, layer_counts, alerts) ==
    [name |-> name, produced |-> produced, layer_counts |-> layer_counts,
     alerts |-> alerts]

\* A mutation of IngestEntry: an entry the layer already holds is not added.
IngestEntryOnce(a, entry) ==
    LET r == BridgeRegisterLayer(a.store, entry.layer)
        held == r.store.heap[r.ret].entries
        dup == \E i \in 1..Len(held) : held[i] = entry
        added == MemoryLayerAdd(r.store.heap, r.ret, entry)
    IN  IF ~r.ok THEN [a EXCEPT !.ok = FALSE]
        ELSE [store |-> IF dup THEN r.store
                        ELSE [r.store EXCEPT !.heap = added.heap],
              layer_counts |->
                  IF entry.layer \in DOMAIN a.layer_counts
                  THEN [a.layer_counts EXCEPT ![entry.layer] = @ + 1]
                  ELSE a.layer_counts @@ (entry.layer :> 1),
              alerts |->
                  IF entry.layer = AlertsLayer
                  THEN Append(a.alerts, entry.content)
                  ELSE a.alerts,
              ok |-> TRUE]

\* A mutation of IngestEntry: layer_counts notes the layers written to, one
\* for each.
IngestEntryNotingLayers(a, entry) ==
    LET r == BridgeRegisterLayer(a.store, entry.layer)
        added == MemoryLayerAdd(r.store.heap, r.ret, entry)
    IN  IF ~r.ok THEN [a EXCEPT !.ok = FALSE]
        ELSE IF ~added.ok THEN [a EXCEPT !.store = r.store, !.ok = FALSE]
        ELSE [store |-> [r.store EXCEPT !.heap = added.heap],
              layer_counts |-> a.layer_counts @@ (entry.layer :> 1),
              alerts |->
                  IF entry.layer = AlertsLayer
                  THEN Append(a.alerts, entry.content)
                  ELSE a.alerts,
              ok |-> TRUE]

\* The body of the entry loop of run_cycle on
\* a = [store, layer_counts, alerts, ok].
IngestEntry(a, entry) ==
    LET r == BridgeRegisterLayer(a.store, entry.layer)
        added == MemoryLayerAdd(r.store.heap, r.ret, entry)
    IN  IF ~r.ok THEN [a EXCEPT !.ok = FALSE]
        ELSE IF ~added.ok THEN [a EXCEPT !.store = r.store, !.ok = FALSE]
        ELSE [store |-> [r.store EXCEPT !.heap = added.heap],
              layer_counts |->
                  IF entry.layer \in DOMAIN a.layer_counts
                  THEN [a.layer_counts EXCEPT ![entry.layer] = @ + 1]
                  ELSE a.layer_counts @@ (entry.layer :> 1),
              alerts |->
                  IF entry.layer = AlertsLayer
                  THEN Append(a.alerts, entry.content)
                  ELSE a.alerts,
              ok |-> TRUE]

RECURSIVE IngestBatch(_, _)
IngestBatch(a, batch) ==
    IF batch = <<>> \/ ~a.ok THEN a
    ELSE IngestBatch(IngestEntry(a, Head(batch)), Tail(batch))

\* The connector loop of run_cycle on c = [store, audits, gathered, ok]: an
\* exception of gather(), register_layer() or add() leaves the loop and the
\* method.  gathered lists the connector objects whose gather() was called.
RECURSIVE RunConnectors(_, _)
RunConnectors(c, ks) ==
    IF ks = <<>> \/ ~c.ok THEN c
    ELSE LET k == Head(ks)
             g == Gather(k)
             a == IngestBatch([store |-> c.store, layer_counts |-> EmptyMap,
                               alerts |-> <<>>, ok |-> TRUE],
                              g.entries)
         IN  IF g.raises
             THEN [c EXCEPT !.gathered = Append(@, k), !.ok = FALSE]
             ELSE IF ~a.ok
             THEN [store |-> a.store, audits |-> c.audits,
                   gathered |-> Append(c.gathered, k), ok |-> FALSE]
             ELSE RunConnectors(
                      [store |-> a.store,
                       gathered |-> Append(c.gathered, k),
                       audits |-> Append(c.audits,
                                         ConnectorAudit(ConnectorName(k),
                                                        Len(g.entries),
                                                        a.layer_counts,
                                                        a.alerts)),
                       ok |-> TRUE],
                      Tail(ks))

\* The recommendation strings, by what they say.
NoEntriesText(name) == [kind |-> "produced no entries", name |-> name, count |-> 0]
AlertsText(name, n) == [kind |-> "emitted alerts", name |-> name, count |-> n]
NominalText == [kind |-> "operating nominally", name |-> "", count |-> 0]

\* A mutation of RecommendationsFor: the alerts are looked at only when the
\* connector produced entries.
RecommendationsForElif(audit) ==
    IF audit.produced = 0 THEN <<NoEntriesText(audit.name)>>
    ELSE IF audit.alerts # <<>>
    THEN <<AlertsText(audit.name, Len(audit.alerts))>>
    ELSE <<>>

\* The body of the loop of generate_recommendations.
RecommendationsFor(audit) ==
    (IF audit.produced = 0 THEN <<NoEntriesText(audit.name)>> ELSE <<>>)
    \o (IF audit.alerts # <<>>
        THEN <<AlertsText(audit.name, Len(audit.alerts))>>
        ELSE <<>>)

\* OperatorCore.generate_recommendations(report)
GenerateRecommendations(report) ==
    LET found == Flatten([i \in 1..Len(report) |->
                             RecommendationsFor(report[i])])
    IN  IF found = <<>> THEN <<NominalText>> ELSE found

\* The audits of the reports of SpecReports.
Audits ==
    {ConnectorAudit(name, produced, EmptyMap, alerts) :
        name \in {"FILES", "ALERT"}, produced \in 0..MaxProduced,
        alerts \in {<<>>, <<"dependency missing">>}}

----------------------------------------------------------------------------
(* modules/mcp_orchestrator.py: execute_parallel.  A connector is known by *)
(* its position in the connectors dict.                                     *)

\* What gather() of a connector does.
Behaviours == {"returns", "raises", "blocks"}

PoolNames == 1..Len(mcp_connectors)

\* What gather() of connector name returns when it returns.
PoolGather(name) == IF name = 1 THEN <<EntryA1, EntryA2>> ELSE <<EntryAlert>>

\* A mutation of ExecuteSingleConnector: an exception of gather() is
\* recorded like a gather() that returned nothing.
ExecuteSingleConnectorNoExcept(name) ==
    LET got == IF mcp_connectors[name] = "raises" THEN <<>>
               ELSE PoolGather(name)
    IN  [entries |-> got,
         record |-> [connector |-> name, success |-> TRUE,
                     entries_generated |-> Len(got)]]

\* MCPOrchestrator.execute_single_connector for a gather() that ends: the
\* value returned and the record appended to execution_history.
ExecuteSingleConnector(name) ==
    IF mcp_connectors[name] = "raises"
    THEN [entries |-> <<>>,
          record |-> [connector |-> name, success |-> FALSE]]
    ELSE [entries |-> PoolGather(name),
          record |-> [connector |-> name, success |-> TRUE,
                      entries_generated |-> Len(PoolGather(name))]]

Running == {name \in PoolNames : task[name] = "running"}

\* execute_parallel() is called: the sequential branch, or every connector
\* submitted to the executor.
ExecuteParallel ==
    /\ pmain = "idle"
    /\ IF ~config.parallel_execution \/ Len(mcp_connectors) <= 1
       THEN pmain' = "sequential" /\ task' = task
       ELSE /\ pmain' = "collecting"
            /\ task' = [name \in PoolNames |-> "queued"]
    /\ UNCHANGED <<config, mcp_connectors, results, execution_history,
                   timedOut, late>>
    /\ UNCHANGED <<bridgeVars, writerVars, extraVars>>

\* The sequential branch runs the next connector in the caller's thread; a
\* gather() that blocks never comes back.
SequentialStep ==
    /\ pmain = "sequential"
    /\ \E name \in PoolNames :
          /\ name = Cardinality(DOMAIN results) + 1
          /\ mcp_connectors[name] # "blocks"
          /\ LET r == ExecuteSingleConnector(name)
             IN  /\ results' = results @@ (name :> r.entries)
                 /\ execution_history' = Append(execution_history, r.record)
          /\ task' = [task EXCEPT ![name] = "done"]
    /\ UNCHANGED <<config, mcp_connectors, pmain, timedOut, late>>
    /\ UNCHANGED <<bridgeVars, writerVars, extraVars>>

\* The sequential branch returns results.
SequentialReturn ==
    /\ pmain = "sequential"
    /\ DOMAIN results = PoolNames
    /\ pmain' = "returned"
    /\ UNCHANGED <<config, mcp_connectors, task, results, execution_history,
                   timedOut, late>>
    /\ UNCHANGED <<bridgeVars, writerVars, extraVars>>

\* A free worker of the executor takes the oldest queued work item.
WorkerTake(name) ==
    /\ task[name] = "queued"
    /\ \A other \in PoolNames : other < name => task[other] # "queued"
    /\ Cardinality(Running) < config.max_workers
    /\ task' = [task EXCEPT ![name] = "running"]
    /\ UNCHANGED <<config, mcp_connectors, pmain, results, execution_history,
                   timedOut, late>>
    /\ UNCHANGED <<bridgeVars, writerVars, extraVars>>

\* execute_single_connector ends in its worker, gather() having returned or
\* raised; a gather() that blocks keeps its worker.
WorkerFinish(name) ==
    /\ task[name] = "running"
    /\ mcp_connectors[name] # "blocks"
    /\ task' = [task EXCEPT ![name] = "done"]
    /\ execution_history' =
           Append(execution_history, ExecuteSingleConnector(name).record)
    /\ UNCHANGED <<config, mcp_connectors, pmain, results, timedOut, late>>
    /\ UNCHANGED <<bridgeVars, writerVars, extraVars>>

\* as_completed yields a finished future and the loop body stores its
\* result.
Collect(name) ==
    /\ pmain = "collecting"
    /\ task[name] = "done"
    /\ name \notin DOMAIN results
    /\ results' = results @@ (name :> ExecuteSingleConnector(name).entries)
    /\ UNCHANGED <<config, mcp_connectors, pmain, task, execution_history,
                   timedOut, late>>
    /\ UNCHANGED <<bridgeVars, writerVars, extraVars>>

\* timeout_seconds pass while the caller is in the as_completed loop.
Timeout ==
    /\ pmain = "collecting"
    /\ ~timedOut
    /\ timedOut' = TRUE
    /\ late' = {name \in PoolNames : task[name] # "done"}
    /\ UNCHANGED <<config, mcp_connectors, pmain, task, results,
                   execution_history>>
    /\ UNCHANGED <<bridgeVars, writerVars, extraVars>>

\* as_completed finds the deadline passed with futures still to yield and
\* raises TimeoutError, outside the try of the loop body: the exception
\* leaves the with block, whose exit is executor.shutdown(wait=True).
RaiseTimeout ==
    /\ pmain = "collecting"
    /\ timedOut
    /\ DOMAIN results # PoolNames
    /\ pmain' = "unwinding"
    /\ UNCHANGED <<config, mcp_connectors, task, results, execution_history,
                   timedOut, late>>
    /\ UNCHANGED <<bridgeVars, writerVars, extraVars>>

\* Every future was yielded: the with block is left, its shutdown finds the
\* workers idle, and results is returned.
ReturnResults ==
    /\ pmain = "collecting"
    /\ DOMAIN results = PoolNames
    /\ pmain' = "returned"
    /\ UNCHANGED <<config, mcp_connectors, task, results, execution_history,
                   timedOut, late>>
    /\ UNCHANGED <<bridgeVars, writerVars, extraVars>>

\* shutdown(wait=True) after the TimeoutError has joined the workers, every
\* work item having run to its end: the exception reaches the caller.
Unwind ==
    /\ pmain = "unwinding"
    /\ \A name \in PoolNames : task[name] = "done"
    /\ pmain' = "raised"
    /\ UNCHANGED <<config, mcp_connectors, task, results, execution_history,
                   timedOut, late>>
    /\ UNCHANGED <<bridgeVars, writerVars, extraVars>>

\* The methods of MemoryBridge.
BridgeMethods ==
    {"register_layer", "get_layer", "register_node", "sync", "export_layer",
     "describe_functions"}

\* all_entries of execute_orchestrated_intelligence_gathering: the lists of
\* results joined, here in the order of the connectors.
AllEntries(rs) == Flatten([name \in 1..Cardinality(DOMAIN rs) |-> rs[name]])

\* The integration loop of execute_orchestrated_intelligence_gathering on a
\* store: self.memory_bridge.add_entry(entry) is an AttributeError,
\* MemoryBridge having no such method, and the first one leaves the loop for
\* the except clause; without entries the loop body is never reached.
IntegrateEntries(st, entries) ==
    [store |-> st, ok |-> entries = <<>> \/ "add_entry" \in BridgeMethods]

\* execute_orchestrated_intelligence_gathering() after its call of
\* execute_parallel() has ended: the summary is returned, or the exception
\* of execute_parallel reaches the caller.
GatherIntelligence ==
    /\ pmain \in {"returned", "raised"}
    /\ call.op = "init"
    /\ LET r == IntegrateEntries(Store, AllEntries(results))
       IN  IF pmain = "raised"
           THEN /\ call' = [op |-> "execute_orchestrated_intelligence_gathering",
                            status |-> "raised"]
                /\ UNCHANGED <<heap, layers, catalog>>
           ELSE /\ heap' = r.store.heap
                /\ layers' = r.store.layers
                /\ catalog' = r.store.catalog
                /\ call' = [op |-> "execute_orchestrated_intelligence_gathering",
                            status |-> "returned",
                            total_entries_generated |->
                                Len(AllEntries(results)),
                            memory_integration_success |-> r.ok]
    /\ UNCHANGED <<log, subscribers, inbound, outbound, connectors>>
    /\ UNCHANGED <<poolVars, writerVars, extraVars>>

\* An orchestrator with connectors cs under configuration cfg, before
\* execute_parallel is called.
PoolWith(cfg, cs) ==
    /\ config = cfg
    /\ mcp_connectors = cs
    /\ pmain = "idle"
    /\ task = [name \in 1..Len(cs) |-> "new"]
    /\ results = EmptyMap
    /\ execution_history = <<>>
    /\ timedOut = FALSE
    /\ late = {}

----------------------------------------------------------------------------
(* Two threads on the ingestion path of run_cycle: register_layer(name)     *)
(* followed by layer.add(entry), a thread being switched between any two    *)
(* accesses of the shared bridge.                                           *)

Writers == {"w1", "w2"}

EntryB1 == [layer |-> NameA, content |-> "doc3"]
EntryB2 == [layer |-> NameA, content |-> "doc4"]

\* The entries a writer draws its batch from.
WriterEntries(w) == IF w = "w1" THEN {EntryA1, EntryA2} ELSE {EntryB1, EntryB2}

\* The entry the writer is ingesting.
WEntry(w) == wbatch[w][wi[w] + 1]

\* register_layer: the name check and layer = self.layers.get(name)
WGet(w) ==
    /\ wpc[w] = "get"
    /\ LET name == WEntry(w).layer
       IN  IF Strip(name) = <<>>
           THEN wpc' = [wpc EXCEPT ![w] = "raised"] /\ wlayer' = wlayer
           ELSE IF name \in DOMAIN layers
           THEN /\ wlayer' = [wlayer EXCEPT ![w] = layers[name]]
                /\ wpc' = [wpc EXCEPT ![w] = "add"]
           ELSE /\ wlayer' = [wlayer EXCEPT ![w] = 0]
                /\ wpc' = [wpc EXCEPT ![w] = "store"]
    /\ UNCHANGED <<heap, layers, catalog, wbatch, wi>>
    /\ UNCHANGED <<log, subscribers, inbound, outbound, connectors, call>>
    /\ UNCHANGED <<poolVars, extraVars>>

\* register_layer: layer = MemoryLayer(name); self.layers[name] = layer
WStore(w) ==
    /\ wpc[w] = "store"
    /\ LET name == WEntry(w).layer
           id == Len(heap) + 1
       IN  /\ heap' = Append(heap, NewLayer(name))
           /\ layers' = (name :> id) @@ layers
           /\ wlayer' = [wlayer EXCEPT ![w] = id]
    /\ wpc' = [wpc EXCEPT ![w] = "spec"]
    /\ UNCHANGED <<catalog, wbatch, wi>>
    /\ UNCHANGED <<log, subscribers, inbound, outbound, connectors, call>>
    /\ UNCHANGED <<poolVars, extraVars>>

\* register_layer: self._register_layer_spec(name); return layer
WSpec(w) ==
    /\ wpc[w] = "spec"
    /\ catalog' = RegisterLayerSpec(catalog, WEntry(w).layer)
    /\ wpc' = [wpc EXCEPT ![w] = "add"]
    /\ UNCHANGED <<heap, layers, wlayer, wbatch, wi>>
    /\ UNCHANGED <<log, subscribers, inbound, outbound, connectors, call>>
    /\ UNCHANGED <<poolVars, extraVars>>

\* layer.add(entry), and on to the next entry
WAdd(w) ==
    /\ wpc[w] = "add"
    /\ LET r == MemoryLayerAdd(heap, wlayer[w], WEntry(w))
       IN  /\ heap' = r.heap
           /\ wi' = IF r.ok THEN [wi EXCEPT ![w] = @ + 1] ELSE wi
           /\ wpc' = [wpc EXCEPT ![w] =
                         IF ~r.ok THEN "raised"
                         ELSE IF wi[w] + 1 = Len(wbatch[w]) THEN "done"
                         ELSE "get"]
    /\ UNCHANGED <<layers, catalog, wlayer, wbatch>>
    /\ UNCHANGED <<log, subscribers, inbound, outbound, connectors, call>>
    /\ UNCHANGED <<poolVars, extraVars>>

\* The writers with batches bs, before their first step.
WritersWith(bs) ==
    /\ wbatch = bs
    /\ wi = [w \in Writers |-> 0]
    /\ wlayer = [w \in Writers |-> 0]
    /\ wpc = [w \in Writers |-> IF bs[w] = <<>> THEN "done" ELSE "get"]

\* An argument of MemoryBridge(...): whether it was passed, and what the
\* object passed held at the call.
NotPassed(value) == [passed |-> FALSE, value |-> value]
Passed(value) == [passed |-> TRUE, value |-> value]

\* A WitnessNetwork as constructed.
NoWitnesses == [log |-> <<>>, subscribers |-> <<>>]

\* What became of an argument: shared says that the bridge holds the
\* caller's object itself.
Kept(arg, shared) ==
    [passed |-> arg.passed, shared |-> shared, value |-> arg.value]

\* No object of the specifications by identity, no cycle under way, a
\* bridge constructed as MemoryBridge().
NoObjects ==
    /\ objects = <<>>
    /\ cycle = [pc |-> "idle"]
    /\ given = [built |-> TRUE,
                layers |-> Kept(NotPassed(EmptyMap), FALSE),
                catalog |-> Kept(NotPassed(<<>>), FALSE),
                witnesses |-> Kept(NotPassed(NoWitnesses), FALSE)]

----------------------------------------------------------------------------
(* memory_bridge/bridge.py: MemoryBridge.__init__ *)

\* bool(x) of a dict, of a McpCatalog (which defines __len__) and of a
\* WitnessNetwork (which defines neither __bool__ nor __len__).
TruthyDict(d) == DOMAIN d # {}
TruthyCatalog(cat) == Len(cat) # 0
TruthyWitnesses(w) == TRUE

\* The objects a caller passes for layers, catalog and witnesses, with what
\* they hold then; the layer object of a dict passed is object 1.
LayersArgs ==
    {NotPassed(EmptyMap), Passed(EmptyMap), Passed(NameA :> 1)}
CatalogArgs ==
    {NotPassed(<<>>), Passed(<<>>),
     Passed(<<[name |-> <<"tool">>, tags |-> <<"v1">>]>>)}
WitnessesArgs ==
    {NotPassed(NoWitnesses), Passed(NoWitnesses),
     Passed([log |-> <<>>, subscribers |-> <<"n3">>])}

\* "x or default": the bridge keeps x when x was passed and is truthy.
KeepsGiven(arg, truthy) == arg.passed /\ truthy

\* "for name in list(self.layers): self._register_layer_spec(name)"
RECURSIVE RegisterSpecsFor(_, _)
RegisterSpecsFor(cat, names) ==
    IF names = {} THEN cat
    ELSE LET name == CHOOSE n \in names : TRUE
         IN  RegisterSpecsFor(RegisterLayerSpec(cat, name), names \ {name})

----------------------------------------------------------------------------
(* memory_bridge/entry.py: MemoryEntry objects by identity.  In SpecEntries *)
(* the list of a layer and the witness log hold references to the objects   *)
(* they were given, a reference being the index of the object in objects.   *)

\* The fields of MemoryEntry and the values given to them.
EntryFieldNames == {"layer", "content", "timestamp"}

FieldValues(field) ==
    CASE field = "layer" -> {NameA, NameASpace}
      [] field = "content" -> {"doc1", "doc2"}
      [] OTHER -> {[tz |-> "utc", t |-> 0], [tz |-> "utc", t |-> 1]}

\* MemoryEntry(layer, content, source, timestamp): the dataclass is not
\* frozen, so the object is one a holder can assign to.
NewEntries ==
    [layer : FieldValues("layer"), content : FieldValues("content"),
     timestamp : FieldValues("timestamp")]

\* entry.field = value
SetAttr(objs, ref, field, value) ==
    [objs EXCEPT ![ref] = [@ EXCEPT ![field] = value]]

\* MemoryLayer.add(entry) on the object id of heap h, the entry being the
\* object objs[ref]: self.entries.append(entry) appends the reference.
MemoryLayerAddRef(h, objs, id, ref) ==
    IF objs[ref].layer # h[id].name
    THEN [heap |-> h, ok |-> FALSE]
    ELSE [heap |-> [h EXCEPT ![id].entries = Append(@, ref)], ok |-> TRUE]

\* The objects the references refs lead to, as they are now.
Deref(objs, refs) == [i \in 1..Len(refs) |-> objs[refs[i]]]

\* The store of SpecEntries with every reference followed.
Resolved(st, objs) ==
    [st EXCEPT !.heap = [id \in 1..Len(st.heap) |->
                            [st.heap[id] EXCEPT
                                !.entries = Deref(objs, @)]]]

----------------------------------------------------------------------------
(* memory_bridge/fusion.py: FusionLoop.cycle statement by statement.        *)

\* The nodes whose apply_update queues an entry for their next
\* fetch_updates(), and that entry.
Reactive == {"n2"}
Reaction == EntryA2

\* node.fetch_updates(): the pending entries, the queue left empty.
FetchUpdates(out, node) ==
    [updates |-> out[node], outbound |-> [out EXCEPT ![node] = <<>>]]

\* A mutation of RestAfterPoll: a node that had entries is polled again.
RestAfterPollWhileQueued(nodes, out) ==
    IF out[Head(nodes)] # <<>> THEN nodes ELSE Tail(nodes)

\* The nodes "for node in nodes" has yet to reach once it has reached the
\* first of nodes.
RestAfterPoll(nodes, out) == Tail(nodes)

\* A mutation of BodyOrder: the entry is broadcast before it is stored.
BodyOrderBroadcastFirst(pc) ==
    CASE pc = "entry" -> "log"
      [] pc = "log" -> "deliver"
      [] pc = "deliver" -> "store"
      [] OTHER -> "entry"

\* The statement that follows pc in the body of the inner loop: the entry
\* is taken, stored, logged, delivered, and the loop goes to its next entry.
BodyOrder(pc) ==
    CASE pc = "entry" -> "store"
      [] pc = "store" -> "log"
      [] pc = "log" -> "deliver"
      [] OTHER -> "entry"

\* The entry the inner loop is at.
CycleEntry == cycle.batch[cycle.at]

----------------------------------------------------------------------------
(* The public calls. *)

Status(ok) == IF ok THEN "returned" ELSE "raised"

\* The entries held by all layers together, and those queued in the nodes.
Stored == SumLen([i \in 1..Len(heap) |-> heap[i].entries])
Queued == SetSumLen(outbound, Nodes)

\* The nodes constructed with entries to return; n3 only receives.
Producers == {"n1", "n2"}

\* The node sequences given to sync.
NodeSeqs == UNION {[1..k -> Producers] : k \in 0..MaxNodes}

\* MemoryBridge.register_layer(name)
RegisterLayer(name) ==
    LET r == BridgeRegisterLayer(Store, name)
    IN  /\ heap' = r.store.heap
        /\ layers' = r.store.layers
        /\ catalog' = r.store.catalog
        /\ call' = [op |-> "register_layer", status |-> Status(r.ok),
                    ret |-> r.ret]
        /\ UNCHANGED <<log, subscribers, inbound, outbound, connectors>>
        /\ UNCHANGED <<poolVars, writerVars, extraVars>>

\* MemoryLayer.add(entry) on the layer registered under name.
LayerAdd(name, entry) ==
    /\ name \in DOMAIN layers
    /\ LET r == MemoryLayerAdd(heap, layers[name], entry)
       IN  /\ heap' = r.heap
           /\ call' = [op |-> "layer_add", status |-> Status(r.ok)]
    /\ UNCHANGED <<layers, catalog, log, subscribers, inbound, outbound,
                   connectors>>
    /\ UNCHANGED <<poolVars, writerVars, extraVars>>

\* MemoryBridge.register_node(node) -> WitnessNetwork.register(node)
RegisterNode(node) ==
    /\ subscribers' = Append(subscribers, node)
    /\ call' = [op |-> "register_node", status |-> "returned"]
    /\ UNCHANGED <<heap, layers, catalog, log, inbound, outbound, connectors>>
    /\ UNCHANGED <<poolVars, writerVars, extraVars>>

\* WitnessNetwork.broadcast(entry, origin=origin)
Broadcast(entry, origin, raising) ==
    LET b == WitnessBroadcast([log |-> log, inbound |-> inbound],
                              subscribers, entry, origin, raising)
    IN  /\ log' = b.log
        /\ inbound' = b.inbound
        /\ call' = [op |-> "broadcast", status |-> Status(b.ok),
                    origin |-> origin]
        /\ UNCHANGED <<heap, layers, catalog, subscribers, outbound,
                       connectors>>
        /\ UNCHANGED <<poolVars, writerVars, extraVars>>

\* MemoryBridge.sync(nodes) -> FusionLoop.cycle(nodes)
Sync(nodes, raising) ==
    LET f == FusionCycle([heap |-> heap, layers |-> layers, log |-> log,
                          inbound |-> inbound, outbound |-> outbound,
                          ok |-> TRUE],
                         subscribers, nodes, raising)
    IN  /\ heap' = f.heap
        /\ layers' = f.layers
        /\ log' = f.log
        /\ inbound' = f.inbound
        /\ outbound' = f.outbound
        /\ call' = [op |-> "sync", status |-> Status(f.ok), nodes |-> nodes]
        /\ UNCHANGED <<catalog, subscribers, connectors>>
        /\ UNCHANGED <<poolVars, writerVars, extraVars>>

\* OperatorCore.register_connector(connector)
RegisterConnector(k) ==
    /\ connectors' = PutConnector(connectors, k)
    /\ call' = [op |-> "register_connector", status |-> "returned",
                connector |-> k, replaced |-> HeldAs(connectors, k)]
    /\ UNCHANGED <<heap, layers, catalog, log, subscribers, inbound,
                   outbound>>
    /\ UNCHANGED <<poolVars, writerVars, extraVars>>

\* A mutation of RunCycle: every entry gathered by a connector that was
\* ingested is broadcast through the witness network as well.
RunCycleBroadcasting ==
    LET c == RunConnectors([store |-> Store, audits |-> <<>>,
                            gathered |-> <<>>, ok |-> TRUE],
                           connectors)
        sent == Flatten([i \in 1..Len(c.audits) |->
                            Gather(c.gathered[i]).entries])
    IN  /\ heap' = c.store.heap
        /\ layers' = c.store.layers
        /\ catalog' = c.store.catalog
        /\ log' = log \o sent
        /\ call' = [op |-> "run_cycle", status |-> Status(c.ok),
                    report |-> IF c.ok THEN c.audits ELSE <<>>,
                    gathered |-> c.gathered]
        /\ UNCHANGED <<subscribers, inbound, outbound, connectors>>
        /\ UNCHANGED <<poolVars, writerVars, extraVars>>

\* OperatorCore.run_cycle(): report is the AuditReport's connectors list.
RunCycle ==
    LET c == RunConnectors([store |-> Store, audits |-> <<>>,
                            gathered |-> <<>>, ok |-> TRUE],
                           connectors)
    IN  /\ heap' = c.store.heap
        /\ layers' = c.store.layers
        /\ catalog' = c.store.catalog
        /\ call' = [op |-> "run_cycle", status |-> Status(c.ok),
                    report |-> IF c.ok THEN c.audits ELSE <<>>,
                    gathered |-> c.gathered]
        /\ UNCHANGED <<log, subscribers, inbound, outbound, connectors>>
        /\ UNCHANGED <<poolVars, writerVars, extraVars>>

\* MemoryBridge.get_layer(name)
GetLayer(name) ==
    LET g == BridgeGetLayer(Store, name)
    IN  /\ heap' = g.store.heap
        /\ layers' = g.store.layers
        /\ catalog' = g.store.catalog
        /\ call' = [op |-> "get_layer", status |-> Status(g.ok),
                    name |-> name, ret |-> g.ret]
        /\ UNCHANGED <<log, subscribers, inbound, outbound, connectors>>
        /\ UNCHANGED <<poolVars, writerVars, extraVars>>

\* MemoryLayer.query(since=since) on the layer registered under name.
Query(name, since) ==
    /\ name \in DOMAIN layers
    /\ LET q == MemoryQuery(heap, layers[name], since)
       IN  call' = [op |-> "query", status |-> Status(q.ok),
                    error |-> q.error, name |-> name, since |-> since,
                    ret |-> q.ret,
                    list |-> MemoryQueryList(heap, layers[name], since)]
    /\ UNCHANGED <<heap, layers, catalog, log, subscribers, inbound,
                   outbound, connectors>>
    /\ UNCHANGED <<poolVars, writerVars, extraVars>>

\* MemoryLayer.all() on the layer registered under name.
All(name) ==
    /\ name \in DOMAIN layers
    /\ call' = [op |-> "all", status |-> "returned", name |-> name,
                ret |-> LayerAll(heap, layers, name),
                list |-> MemoryLayerAll(heap, layers[name])]
    /\ UNCHANGED <<heap, layers, catalog, log, subscribers, inbound,
                   outbound, connectors>>
    /\ UNCHANGED <<poolVars, writerVars, extraVars>>

\* The caller of all() or query() changes the list it was returned: a
\* change to a list a layer owns is a change to that layer's entries.
MutateReturned(how, entry) ==
    /\ call.op \in {"all", "query"}
    /\ call.status = "returned"
    /\ LET changed == MutateList(call.list.items, how, entry)
       IN  /\ heap' = IF call.list.owner = 0 THEN heap
                      ELSE [heap EXCEPT ![call.list.owner].entries = changed]
           /\ call' = [op |-> "list_mutation", status |-> "returned",
                       name |-> call.name,
                       list |-> [call.list EXCEPT !.items = changed]]
    /\ UNCHANGED <<layers, catalog, log, subscribers, inbound, outbound,
                   connectors>>
    /\ UNCHANGED <<poolVars, writerVars, extraVars>>

\* MemoryBridge.describe_functions()
DescribeFunctions ==
    /\ call' = [op |-> "describe_functions", status |-> "returned",
                ret |-> Describe(catalog)]
    /\ UNCHANGED <<heap, layers, catalog, log, subscribers, inbound,
                   outbound, connectors>>
    /\ UNCHANGED <<poolVars, writerVars, extraVars>>

\* MemoryBridge.export_layer(name, since=since)
ExportLayer(name, since) ==
    LET x == BridgeExportLayer(Store, name, since)
    IN  /\ heap' = x.store.heap
        /\ layers' = x.store.layers
        /\ catalog' = x.store.catalog
        /\ call' = [op |-> "export_layer", status |-> Status(x.ok),
                    error |-> x.error, name |-> name, since |-> since,
                    ret |-> x.ret]
        /\ UNCHANGED <<log, subscribers, inbound, outbound, connectors>>
        /\ UNCHANGED <<poolVars, writerVars, extraVars>>

\* McpCatalog.register(spec, replace=replace) on the bridge's catalog.
RegisterSpec(spec, replace) ==
    LET r == CatalogRegister(catalog, spec, replace)
    IN  /\ catalog' = r.catalog
        /\ call' = [op |-> "catalog_register", status |-> Status(r.ok),
                    spec |-> spec, replace |-> replace]
        /\ UNCHANGED <<heap, layers, log, subscribers, inbound, outbound,
                       connectors>>
        /\ UNCHANGED <<poolVars, writerVars, extraVars>>

\* OperatorCore.generate_recommendations(report) on the report at hand.
Recommend ==
    /\ call' = [op |-> "generate_recommendations", status |-> "returned",
                report |-> call.report,
                ret |-> GenerateRecommendations(call.report)]
    /\ UNCHANGED <<heap, layers, catalog, log, subscribers, inbound,
                   outbound, connectors>>
    /\ UNCHANGED <<poolVars, writerVars, extraVars>>

\* entry = MemoryEntry(...) by a caller who keeps the object.
NewEntry(fields) ==
    /\ objects' = Append(objects, fields)
    /\ call' = [op |-> "MemoryEntry", status |-> "returned",
                ret |-> Len(objects) + 1]
    /\ UNCHANGED <<heap, layers, catalog, log, subscribers, inbound,
                   outbound, connectors>>
    /\ UNCHANGED <<poolVars, writerVars, cycle, given>>

\* MemoryLayer.add(entry) on the layer registered under name, with an
\* entry the caller holds.
LayerAddHeld(name, ref) ==
    /\ name \in DOMAIN layers
    /\ LET r == MemoryLayerAddRef(heap, objects, layers[name], ref)
       IN  /\ heap' = r.heap
           /\ call' = [op |-> "layer_add", status |-> Status(r.ok)]
    /\ UNCHANGED <<layers, catalog, log, subscribers, inbound, outbound,
                   connectors>>
    /\ UNCHANGED <<poolVars, writerVars, extraVars>>

\* WitnessNetwork.broadcast(entry) with an entry the caller holds.
BroadcastHeld(ref) ==
    LET b == WitnessBroadcast([log |-> log, inbound |-> inbound],
                              subscribers, ref, NoOrigin, {})
    IN  /\ log' = b.log
        /\ inbound' = b.inbound
        /\ call' = [op |-> "broadcast", status |-> Status(b.ok),
                    origin |-> NoOrigin]
        /\ UNCHANGED <<heap, layers, catalog, subscribers, outbound,
                       connectors>>
        /\ UNCHANGED <<poolVars, writerVars, extraVars>>

\* entry.field = value by the holder of the entry.
AssignField(ref, field, value) ==
    /\ objects' = SetAttr(objects, ref, field, value)
    /\ call' = [op |-> "setattr", status |-> "returned", entry |-> ref,
                field |-> field]
    /\ UNCHANGED <<heap, layers, catalog, log, subscribers, inbound,
                   outbound, connectors>>
    /\ UNCHANGED <<poolVars, writerVars, cycle, given>>

\* MemoryBridge.sync(nodes) -> FusionLoop.cycle(nodes) is called.
CallCycle(nodes, raising) ==
    /\ cycle.pc = "idle"
    /\ cycle' = [pc |-> "poll", nodes |-> nodes, node |-> NoOrigin,
                 batch |-> <<>>, at |-> 0, si |-> 1,
                 polls |-> [n \in Nodes |-> 0], raising |-> raising,
                 base |-> [stored |-> 0, log |-> 0], reactions |-> 0]
    /\ call' = [op |-> "sync", status |-> "running", nodes |-> nodes]
    /\ UNCHANGED <<heap, layers, catalog, log, subscribers, inbound,
                   outbound, connectors, objects, given>>
    /\ UNCHANGED <<poolVars, writerVars>>

\* "for node in nodes": the loop ends and cycle returns, or
\* node.fetch_updates() is called on the next node.
PollNode ==
    /\ cycle.pc = "poll"
    /\ IF cycle.nodes = <<>>
       THEN /\ cycle' = [cycle EXCEPT !.pc = "done"]
            /\ call' = [call EXCEPT !.status = "returned"]
            /\ outbound' = outbound
       ELSE LET node == Head(cycle.nodes)
                f == FetchUpdates(outbound, node)
            IN  /\ cycle' = [cycle EXCEPT
                                !.pc = "entry",
                                !.nodes = RestAfterPoll(cycle.nodes, outbound),
                                !.node = node,
                                !.batch = f.updates,
                                !.at = 0,
                                !.polls[node] = @ + 1,
                                !.base = [stored |-> Stored,
                                          log |-> Len(log)]]
                /\ outbound' = f.outbound
                /\ call' = call
    /\ UNCHANGED <<heap, layers, catalog, log, subscribers, inbound,
                   connectors, objects, given>>
    /\ UNCHANGED <<poolVars, writerVars>>

\* "for entry in node.fetch_updates()": the next entry of the list fetched,
\* or the end of the inner loop.
NextEntry ==
    /\ cycle.pc = "entry"
    /\ cycle' = IF cycle.at = Len(cycle.batch)
                THEN [cycle EXCEPT !.pc = "poll"]
                ELSE [cycle EXCEPT !.pc = BodyOrder("entry"), !.at = @ + 1]
    /\ UNCHANGED <<bridgeVars, objects, given>>
    /\ UNCHANGED <<poolVars, writerVars>>

\* layer = self.layers.setdefault(entry.layer, MemoryLayer(entry.layer));
\* layer.add(entry)
StoreEntry ==
    /\ cycle.pc = "store"
    /\ LET entry == CycleEntry
           fresh == entry.layer \notin DOMAIN layers
           id == IF fresh THEN Len(heap) + 1 ELSE layers[entry.layer]
           h1 == IF fresh THEN Append(heap, NewLayer(entry.layer)) ELSE heap
           added == MemoryLayerAdd(h1, id, entry)
       IN  /\ heap' = added.heap
           /\ layers' = IF fresh THEN layers @@ (entry.layer :> id)
                         ELSE layers
           /\ cycle' = [cycle EXCEPT !.pc = IF added.ok THEN BodyOrder("store")
                                            ELSE "raised"]
           /\ call' = IF added.ok THEN call
                      ELSE [call EXCEPT !.status = "raised"]
    /\ UNCHANGED <<catalog, log, subscribers, inbound, outbound, connectors,
                   objects, given>>
    /\ UNCHANGED <<poolVars, writerVars>>

\* broadcast: self.log.append(entry)
LogEntry ==
    /\ cycle.pc = "log"
    /\ log' = Append(log, CycleEntry)
    /\ cycle' = [cycle EXCEPT !.pc = BodyOrder("log"), !.si = 1]
    /\ UNCHANGED <<heap, layers, catalog, subscribers, inbound, outbound,
                   connectors, call, objects, given>>
    /\ UNCHANGED <<poolVars, writerVars>>

\* broadcast: "for node in self.subscribers": the loop ends, the origin is
\* passed over, or node.apply_update(entry) is invoked; the handler of a
\* reactive node queues an entry of its own, and one that raises ends the
\* cycle.
DeliverEntry ==
    /\ cycle.pc = "deliver"
    /\ IF cycle.si > Len(subscribers)
       THEN /\ cycle' = [cycle EXCEPT !.pc = BodyOrder("deliver")]
            /\ UNCHANGED <<inbound, outbound, call>>
       ELSE LET node == subscribers[cycle.si]
                reacts == node \in Reactive /\ cycle.reactions < MaxReactions
            IN  IF IsOrigin(node, cycle.node)
                THEN /\ cycle' = [cycle EXCEPT !.si = @ + 1]
                     /\ UNCHANGED <<inbound, outbound, call>>
                ELSE /\ inbound' = [inbound EXCEPT
                                       ![node] = Append(@, CycleEntry)]
                     /\ outbound' = IF reacts
                                    THEN [outbound EXCEPT
                                             ![node] = Append(@, Reaction)]
                                    ELSE outbound
                     /\ cycle' = [cycle EXCEPT
                                     !.si = @ + 1,
                                     !.reactions = IF reacts THEN @ + 1 ELSE @,
                                     !.pc = IF node \in cycle.raising
                                            THEN "raised" ELSE @]
                     /\ call' = IF node \in cycle.raising
                                THEN [call EXCEPT !.status = "raised"]
                                ELSE call
    /\ UNCHANGED <<heap, layers, catalog, log, subscribers, connectors,
                   objects, given>>
    /\ UNCHANGED <<poolVars, writerVars>>

\* MemoryBridge(layers=l, witnesses=w, catalog=c)
Construct(l, w, c) ==
    /\ ~given.built
    /\ LET sl == KeepsGiven(l, TruthyDict(l.value))
           sw == KeepsGiven(w, TruthyWitnesses(w.value))
           sc == KeepsGiven(c, TruthyCatalog(c.value))
           ls == IF sl THEN l.value ELSE EmptyMap
           ws == IF sw THEN w.value ELSE NoWitnesses
           cat == IF sc THEN c.value ELSE <<>>
       IN  /\ heap' = IF l.passed /\ l.value # EmptyMap
                      THEN <<NewLayer(NameA)>> ELSE <<>>
           /\ layers' = ls
           /\ log' = ws.log
           /\ subscribers' = ws.subscribers
           /\ catalog' = RegisterSpecsFor(cat, DOMAIN ls)
           /\ given' = [built |-> TRUE, layers |-> Kept(l, sl),
                        catalog |-> Kept(c, sc), witnesses |-> Kept(w, sw)]
    /\ call' = [op |-> "MemoryBridge", status |-> "returned"]
    /\ UNCHANGED <<inbound, outbound, connectors, objects, cycle>>
    /\ UNCHANGED <<poolVars, writerVars>>

\* OperatorCore.layer_snapshot(): each layer name with a copy of its entries.
LayerSnapshot ==
    /\ call' = [op |-> "layer_snapshot", status |-> "returned",
                ret |-> [name \in DOMAIN layers |->
                            LayerAll(heap, layers, name)]]
    /\ UNCHANGED <<heap, layers, catalog, log, subscribers, inbound,
                   outbound, connectors>>
    /\ UNCHANGED <<poolVars, writerVars, extraVars>>

----------------------------------------------------------------------------
(* Specifications. *)

\* A fresh MemoryBridge and OperatorCore; the nodes of From are constructed
\* with the entries they will return, QueueBound of them altogether.
InitWith(From, QueueBound) ==
    /\ heap = <<>>
    /\ layers = EmptyMap
    /\ catalog = <<>>
    /\ log = <<>>
    /\ subscribers = <<>>
    /\ inbound = [n \in Nodes |-> <<>>]
    /\ outbound \in [Nodes -> SeqsUpTo(EntryPool, QueueBound)]
    /\ \A n \in Nodes \ From : outbound[n] = <<>>
    /\ Queued <= QueueBound
    /\ connectors = <<>>
    /\ call = [op |-> "init", status |-> "returned"]
    /\ PoolWith([parallel_execution |-> TRUE, max_workers |-> MaxWorkers], <<>>)
    /\ WritersWith([w \in Writers |-> <<>>])
    /\ NoObjects

Init == InitWith({"n1"}, MaxQueued)

\* The entries sync(nodes) fetches.
Fetched(nodes) == SetSumLen(outbound, {nodes[i] : i \in 1..Len(nodes)})

\* The entries run_cycle() gathers.
RECURSIVE Gathered(_)
Gathered(ks) ==
    IF ks = <<>> THEN 0
    ELSE Len(Gather(Head(ks)).entries) + Gathered(Tail(ks))

\* Spec: one bridge and the operator over it.
Next ==
    \/ \E name \in LayerNames \cup {NameEmpty} : RegisterLayer(name)
    \/ \E name \in LayerNames, entry \in EntryPool :
          Stored < MaxStored /\ LayerAdd(name, entry)
    \/ \E nodes \in {<<"n1">>} :
          /\ Stored + Fetched(nodes) <= MaxStored
          /\ Len(log) + Fetched(nodes) <= MaxLog
          /\ Sync(nodes, {})
    \/ \E k \in Connectors :
          /\ Len(PutConnector(connectors, k)) <= MaxConnectors
          /\ RegisterConnector(k)
    \/ Stored + Gathered(connectors) <= MaxStored /\ RunCycle
    \/ LayerSnapshot

Spec == Init /\ [][Next]_vars

\* SpecFusion: the witness network and the fusion loop with their nodes.
NextFusion ==
    \/ \E node \in Nodes :
          Len(subscribers) < MaxSubscribers /\ RegisterNode(node)
    \/ \E entry \in EntryPool, origin \in Nodes \cup {NoOrigin},
          raising \in RaisingChoices :
          Len(log) < FusionMaxLog /\ Broadcast(entry, origin, raising)
    \/ \E nodes \in NodeSeqs, raising \in RaisingChoices :
          /\ Len(log) + Fetched(nodes) <= FusionMaxLog
          /\ Sync(nodes, raising)

InitFusion == InitWith(Producers, FusionMaxQueued)

SpecFusion == InitFusion /\ [][NextFusion]_vars

\* SpecLayers: a bridge whose layers hold timestamped entries.
NextLayers ==
    \/ \E name \in {NameA, NameASpace} : RegisterLayer(name)
    \/ \E name \in {NameA, NameASpace}, entry \in TimedEntries :
          Stored < MaxHeld /\ LayerAdd(name, entry)
    \/ \E name \in {NameA, NameASpace} : GetLayer(name)
    \/ \E name \in {NameA, NameASpace}, since \in Sinces :
          Query(name, since)
    \/ \E name \in {NameA, NameASpace}, since \in Sinces :
          ExportLayer(name, since)
    \/ \E spec \in FunctionSpecs, replace \in BOOLEAN :
          RegisterSpec(spec, replace)
    \/ \E name \in {NameA, NameASpace} : All(name)
    \/ \E how \in ListMutations, entry \in TimedEntries :
          MutateReturned(how, entry)
    \/ DescribeFunctions

InitLayers == InitWith({}, 0)

SpecLayers == InitLayers /\ [][NextLayers]_vars

\* SpecReports: generate_recommendations on a report of up to MaxAudits
\* audits.
InitReports ==
    /\ heap = <<>>
    /\ layers = EmptyMap
    /\ catalog = <<>>
    /\ log = <<>>
    /\ subscribers = <<>>
    /\ inbound = [n \in Nodes |-> <<>>]
    /\ outbound = [n \in Nodes |-> <<>>]
    /\ connectors = <<>>
    /\ \E report \in SeqsUpTo(Audits, MaxAudits) :
          call = [op |-> "init", status |-> "returned", report |-> report]
    /\ PoolWith([parallel_execution |-> TRUE, max_workers |-> MaxWorkers], <<>>)
    /\ WritersWith([w \in Writers |-> <<>>])
    /\ NoObjects

NextReports == Recommend

SpecReports == InitReports /\ [][NextReports]_vars

\* SpecEntries: a caller constructs entries, hands them to a layer and to
\* the witness network, and keeps them.
InitEntries == InitWith({}, 0)

NextEntries ==
    \/ RegisterLayer(NameA)
    \/ \E fields \in NewEntries :
          Len(objects) < MaxObjects /\ NewEntry(fields)
    \/ \E ref \in 1..Len(objects) :
          Stored < MaxRefs /\ LayerAddHeld(NameA, ref)
    \/ \E ref \in 1..Len(objects) :
          Len(log) < MaxRefs /\ BroadcastHeld(ref)
    \/ \E ref \in 1..Len(objects), field \in EntryFieldNames :
          \E value \in FieldValues(field) : AssignField(ref, field, value)

SpecEntries == InitEntries /\ [][NextEntries]_vars

\* SpecOperator: an operator whose bridge has nodes subscribed: connectors
\* are registered and run, and node n1 is synchronised.
InitOperator == InitWith({"n1"}, MaxQueued)

NextOperator ==
    \/ \E node \in {"n2", "n3"} :
          Len(subscribers) < MaxSubscribers /\ RegisterNode(node)
    \/ \E nodes \in {<<"n1">>} :
          /\ Stored + Fetched(nodes) <= MaxStored
          /\ Sync(nodes, {})
    \/ \E k \in Connectors :
          /\ Len(PutConnector(connectors, k)) <= MaxConnectors
          /\ RegisterConnector(k)
    \/ Stored + Gathered(connectors) <= MaxStored /\ RunCycle

SpecOperator == InitOperator /\ [][NextOperator]_vars

\* SpecConstruct: a bridge is constructed with objects of the caller and
\* then used.
InitConstruct ==
    /\ heap = <<>>
    /\ layers = EmptyMap
    /\ catalog = <<>>
    /\ log = <<>>
    /\ subscribers = <<>>
    /\ inbound = [n \in Nodes |-> <<>>]
    /\ outbound \in [Nodes -> SeqsUpTo(EntryPool, MaxQueued)]
    /\ \A n \in Nodes \ {"n1"} : outbound[n] = <<>>
    /\ connectors = <<>>
    /\ call = [op |-> "init", status |-> "returned"]
    /\ PoolWith([parallel_execution |-> TRUE, max_workers |-> MaxWorkers], <<>>)
    /\ WritersWith([w \in Writers |-> <<>>])
    /\ objects = <<>>
    /\ cycle = [pc |-> "idle"]
    /\ given = [built |-> FALSE]

NextConstruct ==
    \/ \E l \in LayersArgs, w \in WitnessesArgs, c \in CatalogArgs :
          Construct(l, w, c)
    \/ \E name \in {NameA, NameASpace} : given.built /\ RegisterLayer(name)
    \/ \E node \in {"n2"} :
          /\ given.built
          /\ Len(subscribers) < MaxSubscribers
          /\ RegisterNode(node)
    \/ given.built /\ Sync(<<"n1">>, {})
    \/ given.built /\ DescribeFunctions

SpecConstruct == InitConstruct /\ [][NextConstruct]_vars

\* SpecCycle: nodes are registered with the witness network, then
\* cycle(nodes) runs once.
InitCycle == InitWith(Producers, FusionMaxQueued)

NextCycle ==
    \/ \E node \in Nodes :
          /\ cycle.pc = "idle"
          /\ Len(subscribers) < MaxSubscribers
          /\ RegisterNode(node)
    \/ \E nodes \in NodeSeqs, raising \in RaisingChoices :
          CallCycle(nodes, raising)
    \/ PollNode
    \/ NextEntry
    \/ StoreEntry
    \/ LogEntry
    \/ DeliverEntry

SpecCycle == InitCycle /\ [][NextCycle]_vars /\ WF_vars(NextCycle)

\* SpecPool: one call of execute_parallel on an orchestrator of up to
\* MaxPoolConnectors connectors.  Threads get to run and time passes.
InitPool ==
    /\ heap = <<>>
    /\ layers = EmptyMap
    /\ catalog = <<>>
    /\ log = <<>>
    /\ subscribers = <<>>
    /\ inbound = [n \in Nodes |-> <<>>]
    /\ outbound = [n \in Nodes |-> <<>>]
    /\ connectors = <<>>
    /\ call = [op |-> "init", status |-> "returned"]
    /\ \E cfg \in [parallel_execution : BOOLEAN, max_workers : 1..MaxWorkers],
          cs \in SeqsUpTo(Behaviours, MaxPoolConnectors) : PoolWith(cfg, cs)
    /\ WritersWith([w \in Writers |-> <<>>])
    /\ NoObjects

NextPool ==
    \/ ExecuteParallel
    \/ SequentialStep
    \/ SequentialReturn
    \/ \E name \in PoolNames : WorkerTake(name)
    \/ \E name \in PoolNames : WorkerFinish(name)
    \/ \E name \in PoolNames : Collect(name)
    \/ Timeout
    \/ RaiseTimeout
    \/ ReturnResults
    \/ Unwind
    \/ GatherIntelligence

SpecPool == InitPool /\ [][NextPool]_vars /\ WF_vars(NextPool)

\* SpecWriters: two writers ingest their batches into one bridge, on which
\* layer a was or was not registered before.
InitWriters ==
    /\ \/ heap = <<>> /\ layers = EmptyMap /\ catalog = <<>>
       \/ LET r == BridgeRegisterLayer(
                       [heap |-> <<>>, layers |-> EmptyMap, catalog |-> <<>>],
                       NameA)
          IN  /\ heap = r.store.heap
              /\ layers = r.store.layers
              /\ catalog = r.store.catalog
    /\ log = <<>>
    /\ subscribers = <<>>
    /\ inbound = [n \in Nodes |-> <<>>]
    /\ outbound = [n \in Nodes |-> <<>>]
    /\ connectors = <<>>
    /\ call = [op |-> "init", status |-> "returned"]
    /\ PoolWith([parallel_execution |-> TRUE, max_workers |-> MaxWorkers], <<>>)
    /\ \E bs \in [Writers -> SeqsUpTo(EntryPool \cup {EntryB1, EntryB2},
                                       MaxBatch)] :
          /\ \A w \in Writers :
                /\ bs[w] # <<>>
                /\ \A i \in 1..Len(bs[w]) : bs[w][i] \in WriterEntries(w)
          /\ WritersWith(bs)
    /\ NoObjects

NextWriters ==
    \/ \E w \in Writers : WGet(w)
    \/ \E w \in Writers : WStore(w)
    \/ \E w \in Writers : WSpec(w)
    \/ \E w \in Writers : WAdd(w)

SpecWriters == InitWriters /\ [][NextWriters]_vars

----------------------------------------------------------------------------
(* What the properties below speak of. *)

\* The entries of the layer registered under name; none when there is none.
EntriesOf(h, ls, name) == IF name \in DOMAIN ls THEN h[ls[name]].entries ELSE <<>>

\* The entries of seq that carry layer name, in order.
OfLayer(seq, name) == SelectSeq(seq, LAMBDA e : e.layer = name)

HasNonSpace(name) == \E i \in 1..Len(name) : name[i] # " "

\* n copies of x.
Repeat(x, n) == [i \in 1..n |-> x]

IsPrefix(s, t) == Len(s) <= Len(t) /\ SubSeq(t, 1, Len(s)) = s

\* What the connectors ks return in one run, in registration order, a
\* connector that raises counting for nothing.
GatheredEntries(ks) == Flatten([i \in 1..Len(ks) |-> Gather(ks[i]).entries])

\* The position of the first subscriber that is node.
FirstAt(node) ==
    CHOOSE i \in 1..Len(subscribers) :
        /\ subscribers[i] = node
        /\ \A j \in 1..(i - 1) : subscribers[j] # node

\* What a broadcast of entry from origin has passed to n when apply_update
\* of the subscriber at position fail raised: one copy per registration of n
\* up to that position.
DeliveredUpTo(n, entry, origin, fail) ==
    IF n = origin THEN <<>>
    ELSE Repeat(entry, Cardinality({i \in 1..fail : subscribers[i] = n}))

\* The sum of the values of a dict of counts.
RECURSIVE SumOf(_)
SumOf(f) ==
    IF DOMAIN f = {} THEN 0
    ELSE LET x == CHOOSE y \in DOMAIN f : TRUE
         IN  f[x] + SumOf([z \in DOMAIN f \ {x} |-> f[z]])

\* The contents of the entries of seq, in order.
Contents(seq) == [i \in 1..Len(seq) |-> seq[i].content]

\* What cycle(nodes) fetches, per position of nodes: a node met again has
\* nothing new.
FetchedBatches(nodes) ==
    [k \in 1..Len(nodes) |->
        IF \E j \in 1..(k - 1) : nodes[j] = nodes[k]
        THEN <<>>
        ELSE outbound[nodes[k]]]

\* What cycle(nodes) owes node n: every entry fetched from another node,
\* once per registration of n, in fetch order.
RECURSIVE PerRegistration(_, _)
PerRegistration(seq, n) ==
    IF seq = <<>> THEN <<>>
    ELSE Repeat(Head(seq), n) \o PerRegistration(Tail(seq), n)

Owed(n, nodes) ==
    LET fb == FetchedBatches(nodes)
    IN  PerRegistration(
            Flatten([k \in 1..Len(nodes) |->
                        IF nodes[k] = n THEN <<>> ELSE fb[k]]),
            Count(subscribers, n))

----------------------------------------------------------------------------
(* Properties. *)

\* C1: run_cycle() returns a report with one audit per registered connector
\* even when a gather() raises: the raising connector is audited with
\* produced = 0, and every other connector's audit and ingested entries are
\* what they are without the failure.
C1_RunCycleIsolatesFailure ==
    [][call'.op = "run_cycle" =>
        /\ call'.status = "returned"
        /\ Len(call'.report) = Len(connectors)
        /\ \A i \in 1..Len(connectors) :
              /\ call'.report[i].name = ConnectorName(connectors[i])
              /\ call'.report[i].produced = Len(Gather(connectors[i]).entries)
        /\ \A name \in LayerNames :
              EntriesOf(heap', layers', name) =
                  EntriesOf(heap, layers, name)
                  \o OfLayer(GatheredEntries(connectors), name)]_vars

\* C2: a call of execute_parallel under the worker-pool policy during which
\* timeout_seconds passed with a connector not completed does not raise: it
\* returns a result map holding no entries for a connector not completed in
\* time and the real entries of every other connector.
C2_TimeoutIsolated ==
    (/\ pmain \in {"returned", "raised"}
     /\ config.parallel_execution /\ Len(mcp_connectors) >= 2
     /\ timedOut /\ late # {}) =>
        /\ pmain = "returned"
        /\ DOMAIN results = PoolNames
        /\ \A name \in PoolNames :
              results[name] = IF name \in late THEN <<>>
                              ELSE ExecuteSingleConnector(name).entries

\* C3: under the worker-pool policy, once the timeout has passed and every
\* connector whose gather() does not block forever has finished, the call of
\* execute_parallel comes to an end.
C3_BlockedConnectorTerminates ==
    (/\ pmain = "collecting"
     /\ timedOut
     /\ \A name \in PoolNames :
           mcp_connectors[name] # "blocks" => task[name] = "done")
        ~> (pmain \in {"returned", "raised"})

\* C4: broadcast(entry, origin) never invokes apply_update on the origin
\* object, wherever and however often it is registered, also when the entry
\* comes from the origin's fetch_updates() during a cycle; a broadcast that
\* returns has delivered the entry to every other subscriber once per
\* registration (a node equal to the origin but not the origin included), and
\* to every subscriber when origin is None.
C4_OriginExclusion ==
    [][/\ call'.op = "broadcast" =>
            LET entry == log'[Len(log')]
                origin == call'.origin
            IN  \A n \in Nodes :
                    /\ n = origin => inbound'[n] = inbound[n]
                    /\ IsPrefix(inbound[n], inbound'[n])
                    /\ (n # origin /\ call'.status = "returned") =>
                          inbound'[n] = inbound[n]
                              \o Repeat(entry, Count(subscribers, n))
       /\ call'.op = "sync" =>
            \A n \in Nodes :
                /\ IsPrefix(inbound[n], inbound'[n])
                /\ IsPrefix(inbound'[n], inbound[n] \o Owed(n, call'.nodes))
                /\ call'.status = "returned" =>
                      inbound'[n] = inbound[n] \o Owed(n, call'.nodes)]_vars

\* C4 witness: n1 and n2 are registered, an entry of origin n1 was broadcast,
\* n2 received it and n1 received nothing.
C4_Witness ==
    /\ call.op = "broadcast"
    /\ call.status = "returned"
    /\ subscribers = <<"n1", "n2">>
    /\ inbound["n1"] = <<>>
    /\ Len(inbound["n2"]) = Len(log)
    /\ log # <<>>

\* C5: a cycle(nodes) that completes on an empty store leaves the log equal
\* to the nodes' batches concatenated in iteration order, every layer
\* holding exactly the log's entries of its name in log order, and every
\* node having received, once per registration and in log order, exactly the
\* entries it did not originate.
C5_CycleOnEmptyStore ==
    [][(/\ call'.op = "sync"
        /\ call'.status = "returned"
        /\ heap = <<>> /\ log = <<>>
        /\ \A n \in Nodes : inbound[n] = <<>>) =>
            /\ log' = Flatten(FetchedBatches(call'.nodes))
            /\ DOMAIN layers' = {log'[i].layer : i \in 1..Len(log')}
            /\ \A name \in DOMAIN layers' :
                  LayerAll(heap', layers', name) = OfLayer(log', name)
            /\ \A n \in Nodes : inbound'[n] = Owed(n, call'.nodes)]_vars

\* C5 witness: A produced [e1, e2], B nothing, both registered, and the cycle
\* over them has completed.
C5_Witness ==
    /\ call.op = "sync"
    /\ call.status = "returned"
    /\ subscribers = <<"n1", "n2">>
    /\ log = <<EntryA1, EntryA2>>
    /\ EntriesOf(heap, layers, NameA) = <<EntryA1, EntryA2>>
    /\ inbound["n1"] = <<>>
    /\ inbound["n2"] = <<EntryA1, EntryA2>>

\* C6: in every state each layer name of bridge.layers has exactly one
\* catalog spec named memory.fetch_<name> in describe_functions().
C6_CatalogCoversLayers ==
    \A name \in DOMAIN layers :
        Cardinality({i \in 1..Len(Describe(catalog)) :
                        Describe(catalog)[i].name = <<FetchPrefix>> \o name}) = 1

\* C7: for a name with a non-whitespace character, register_layer(name)
\* returns the layer registered under the name, a later call returns that
\* same object with its entries as they were, and the catalog then holds
\* exactly one spec named exactly memory.fetch_<name>.
C7_RegisterLayerTwice ==
    [][\A name \in LayerNames :
        (/\ call'.op = "register_layer"
         /\ HasNonSpace(name)
         /\ RegisterLayer(name)) =>
            /\ call'.status = "returned"
            /\ name \in DOMAIN layers'
            /\ call'.ret = layers'[name]
            /\ name \in DOMAIN layers =>
                  /\ call'.ret = layers[name]
                  /\ heap' = heap
            /\ Cardinality({i \in 1..Len(catalog') :
                   catalog'[i].name = <<FetchPrefix>> \o name}) = 1]_vars

\* Every entry a layer object holds carries the layer's name, and a layer is
\* registered under its own name.
LayerPartition ==
    /\ \A id \in 1..Len(heap) :
          \A j \in 1..Len(heap[id].entries) :
              heap[id].entries[j].layer = heap[id].name
    /\ \A name \in DOMAIN layers : heap[layers[name]].name = name

\* C8: every stored entry carries the name of the layer that holds it,
\* whatever register_layer, add, sync and run_cycle calls were made; add() of
\* an entry of another layer raises and leaves the layer as it was.
C8_LayerPartition ==
    /\ []LayerPartition
    /\ [][\A name \in LayerNames, entry \in EntryPool :
            (/\ call'.op = "layer_add"
             /\ name \in DOMAIN layers
             /\ entry.layer # name
             /\ LayerAdd(name, entry)) =>
                /\ call'.status = "raised"
                /\ heap' = heap
                /\ layers' = layers]_vars

\* C8 witness: a layer filled by a cycle, a layer filled by run_cycle, and an
\* add() of a foreign entry that has just raised.
C8_Witness ==
    /\ call.op = "layer_add"
    /\ call.status = "raised"
    /\ EntriesOf(heap, layers, NameBlank) # <<>>
    /\ EntriesOf(heap, layers, AlertsLayer) # <<>>

\* C9: when two writers have ingested their entries of one layer name, each
\* by register_layer(name) and add(entry), the layer registered under that
\* name holds the entries of each writer, all of them and in the writer's
\* order, however the writers' steps were interleaved.
C9_ConcurrentWritersKeepEntries ==
    (\A w \in Writers : wpc[w] = "done") =>
        \A w \in Writers :
            SelectSeq(EntriesOf(heap, layers, NameA),
                      LAMBDA e : e \in WriterEntries(w)) = wbatch[w]

\* C10: when run_cycle() returns, every layer holds what it held before
\* followed by the entries of its name that the connectors gathered, each
\* once, in connector order and within a connector in gather() order; the
\* layers needed exist.
C10_RunCycleIngests ==
    [][(call'.op = "run_cycle" /\ call'.status = "returned") =>
        \A name \in LayerNames :
            /\ OfLayer(GatheredEntries(connectors), name) # <<>> =>
                  name \in DOMAIN layers'
            /\ EntriesOf(heap', layers', name) =
                  EntriesOf(heap, layers, name)
                  \o OfLayer(GatheredEntries(connectors), name)]_vars

\* C10 witness: a returned run of two connectors that filled two layers.
C10_Witness ==
    /\ call.op = "run_cycle"
    /\ call.status = "returned"
    /\ Len(call.report) = 2
    /\ EntriesOf(heap, layers, NameA) = <<EntryA1, EntryA2>>
    /\ EntriesOf(heap, layers, AlertsLayer) = <<EntryAlert>>

C12_BroadcastFailFast ==
    [][/\ (/\ call'.op = "broadcast"
           /\ call'.origin # "n3"
           /\ \E i \in 1..Len(subscribers) : subscribers[i] = "n3"
           /\ Len(log') > 0
           /\ Broadcast(log'[Len(log')], call'.origin, {"n3"})) =>
              call'.status = "raised"
       /\ (/\ call'.op = "sync"
           /\ \E i \in 1..Len(subscribers) : subscribers[i] = "n3"
           /\ Flatten(FetchedBatches(call'.nodes)) # <<>>
           /\ Sync(call'.nodes, {"n3"})) =>
              call'.status = "raised"
       /\ (call'.op = "broadcast" /\ call'.status = "raised") =>
              /\ Len(log') = Len(log) + 1
              /\ IsPrefix(log, log')
              /\ \A n \in Nodes :
                    inbound'[n] = inbound[n]
                        \o DeliveredUpTo(n, log'[Len(log')], call'.origin,
                                         FirstAt("n3"))
       /\ (call'.op = "sync" /\ call'.status = "raised") =>
              LET nodes == call'.nodes
                  fb == FetchedBatches(nodes)
                  k == CHOOSE i \in 1..Len(nodes) :
                          /\ fb[i] # <<>>
                          /\ \A j \in 1..(i - 1) : fb[j] = <<>>
                  entry == Head(fb[k])
              IN  /\ log' = Append(log, entry)
                  /\ \A name \in DOMAIN layers' :
                        EntriesOf(heap', layers', name) =
                            EntriesOf(heap, layers, name)
                            \o OfLayer(<<entry>>, name)
                  /\ entry.layer \in DOMAIN layers'
                  /\ \A n \in Nodes :
                        inbound'[n] = inbound[n]
                            \o DeliveredUpTo(n, entry, nodes[k],
                                             FirstAt("n3"))
                  /\ \A n \in Nodes :
                        outbound'[n] =
                            IF \E j \in 1..k : nodes[j] = n THEN <<>>
                            ELSE outbound[n]]_vars

\* C12 witness: n3, whose apply_update raises, is registered before n2; the
\* cycle over n1 raised on the first of n1's two entries, which is in the log
\* and in its layer, and n2 received nothing.
C12_Witness ==
    /\ call.op = "sync"
    /\ call.status = "raised"
    /\ subscribers = <<"n3", "n2">>
    /\ log = <<EntryA1>>
    /\ EntriesOf(heap, layers, NameA) = <<EntryA1>>
    /\ inbound["n3"] = <<EntryA1>>
    /\ inbound["n2"] = <<>>
    /\ outbound["n1"] = <<>>

\* C13: query(since=t) with an aware t returns exactly the held entries with
\* timestamp >= t, in insertion order, whatever the layer holds; query()
\* without since returns what all() returns.
C13_QueryFilters ==
    [][(/\ call'.op = "query"
        /\ call'.since = NoSince \/ IsAware(call'.since)) =>
            /\ call'.status = "returned"
            /\ call'.ret =
                  IF call'.since = NoSince
                  THEN LayerAll(heap, layers, call'.name)
                  ELSE SelectSeq(LayerAll(heap, layers, call'.name),
                                 LAMBDA e : e.timestamp.t >= call'.since.t)]_vars

\* C14: query(since=t) and export_layer(name, since=t) of an existing layer
\* with a naive t raise, whatever the layer holds, give no result and leave
\* the bridge as it was.
C14_NaiveSinceFails ==
    [][(/\ call'.op \in {"query", "export_layer"}
        /\ call'.name \in DOMAIN layers
        /\ call'.since # NoSince
        /\ ~IsAware(call'.since)) =>
            /\ call'.status = "raised"
            /\ call'.ret = <<>>
            /\ heap' = heap
            /\ layers' = layers
            /\ catalog' = catalog]_vars

\* C14 witness: export_layer of a layer holding an entry, with a naive since,
\* has raised.
C14_Witness ==
    /\ call.op = "export_layer"
    /\ call.status = "raised"
    /\ call.error = "ValueError"
    /\ call.since.tz = "none"
    /\ call.name = NameA
    /\ EntriesOf(heap, layers, NameA) # <<>>

\* C15: register(spec) of a name already present raises without replace and
\* leaves the catalog as it was; with replace=True it returns, the name has
\* exactly one spec, the given one, and describe() shows it in place of the
\* earlier one.  A name not present is added.
C15_CatalogDuplicate ==
    [][call'.op = "catalog_register" =>
        LET spec == call'.spec
            present == CatalogIndex(catalog, spec.name) # {}
        IN  /\ (present /\ ~call'.replace) =>
                  /\ call'.status = "raised"
                  /\ catalog' = catalog
                  /\ CatalogGet(catalog', spec.name)
                        = CatalogGet(catalog, spec.name)
                  /\ Describe(catalog') = Describe(catalog)
            /\ (present /\ call'.replace) =>
                  /\ call'.status = "returned"
                  /\ Cardinality(CatalogIndex(catalog', spec.name)) = 1
                  /\ CatalogGet(catalog', spec.name) = <<spec>>
                  /\ Len(Describe(catalog')) = Len(Describe(catalog))
                  /\ \A i \in 1..Len(Describe(catalog)) :
                        Describe(catalog')[i] =
                            IF Describe(catalog)[i].name = spec.name
                            THEN spec
                            ELSE Describe(catalog)[i]
            /\ ~present =>
                  /\ call'.status = "returned"
                  /\ catalog' = Append(catalog, spec)]_vars

\* C15 witness: the spec v2 stands where v1 was replaced, before a spec
\* registered later, and registering v1 again without replace has raised.
C15_Witness ==
    /\ call.op = "catalog_register"
    /\ call.status = "raised"
    /\ call.spec = [name |-> <<FetchPrefix, "a">>, tags |-> <<"v1">>]
    /\ catalog = <<[name |-> <<FetchPrefix, "a">>, tags |-> <<"v2">>],
                   [name |-> <<"tool">>, tags |-> <<"v1">>]>>

\* C16: register_layer(name) with an empty or whitespace-only name raises
\* and leaves the layers and the catalog as they were.
C16_BlankNameRefused ==
    [][\A name \in LayerNames \cup {NameEmpty} :
        (/\ call'.op = "register_layer"
         /\ ~HasNonSpace(name)
         /\ RegisterLayer(name)) =>
            /\ call'.status = "raised"
            /\ heap' = heap
            /\ layers' = layers
            /\ catalog' = catalog]_vars

\* C16 witness: register_layer has raised on a bridge that holds layers and
\* specs, a whitespace-named layer made by a cycle among them.
C16_Witness ==
    /\ call.op = "register_layer"
    /\ call.status = "raised"
    /\ NameBlank \in DOMAIN layers
    /\ catalog # <<>>

\* C17: get_layer(name) and export_layer(name) of a name that is not a layer
\* raise (KeyError) and create neither a layer nor a spec.
C17_LookupOfAbsentLayer ==
    [][(/\ call'.op \in {"get_layer", "export_layer"}
        /\ call'.name \notin DOMAIN layers) =>
            /\ call'.status = "raised"
            /\ call'.op = "export_layer" => call'.error = "KeyError"
            /\ heap' = heap
            /\ layers' = layers
            /\ catalog' = catalog]_vars

\* C17 witness: export_layer of a name never registered has raised on a
\* bridge holding another layer.
C17_Witness ==
    /\ call.op = "export_layer"
    /\ call.status = "raised"
    /\ call.error = "KeyError"
    /\ call.name = NameASpace
    /\ DOMAIN layers = {NameA}

\* C18: register_connector of a connector whose name is already registered
\* leaves the operator holding only the new one under that name, the other
\* names as they were; a run_cycle() calls gather() only on the connectors
\* held, in their order, and its report has one audit per name.
C18_LastRegisterWins ==
    [][/\ call'.op = "register_connector" =>
            LET k == call'.connector
                same == {i \in 1..Len(connectors') :
                            ConnectorName(connectors'[i]) = ConnectorName(k)}
            IN  /\ Cardinality(same) = 1
                /\ \A i \in same : connectors'[i] = k
                /\ call'.replaced # "None" =>
                      /\ Len(connectors') = Len(connectors)
                      /\ \A i \in 1..Len(connectors) :
                            connectors'[i] =
                                IF connectors[i] = call'.replaced THEN k
                                ELSE connectors[i]
                /\ call'.replaced = "None" =>
                      connectors' = Append(connectors, k)
       /\ call'.op = "run_cycle" =>
            /\ IsPrefix(call'.gathered, connectors)
            /\ \A i, j \in 1..Len(connectors) :
                  ConnectorName(connectors[i]) = ConnectorName(connectors[j])
                      => i = j
            /\ call'.status = "returned" =>
                  /\ call'.gathered = connectors
                  /\ \A i \in 1..Len(connectors) :
                        Cardinality({j \in 1..Len(call'.report) :
                            call'.report[j].name
                                = ConnectorName(connectors[i])}) = 1]_vars

\* C18 witness: k1 has just been registered under the name FILES that k3
\* held, and stands where k3 stood, before the connector registered after
\* k3.
C18_Witness ==
    /\ call.op = "register_connector"
    /\ call.connector = "k1"
    /\ call.replaced = "k3"
    /\ connectors = <<"k1", "k2">>

\* C19: generate_recommendations(report) names every connector of the
\* report whose produced is 0 and every connector whose alerts are not
\* empty, a connector with both in both ways, and holds the all-nominal
\* message exactly when no connector of the report is either.
C19_RecommendationsSurface ==
    call.op = "generate_recommendations" =>
        LET report == call.report
            recs == {call.ret[i] : i \in 1..Len(call.ret)}
        IN  /\ \A i \in 1..Len(report) :
                  /\ report[i].produced = 0 =>
                        NoEntriesText(report[i].name) \in recs
                  /\ report[i].alerts # <<>> =>
                        \E r \in recs : /\ r.kind = "emitted alerts"
                                         /\ r.name = report[i].name
            /\ NominalText \in recs <=>
                  \A i \in 1..Len(report) :
                      report[i].produced # 0 /\ report[i].alerts = <<>>

\* C19 witness: the recommendations for a report whose first connector
\* produced nothing and emitted an alert and whose second is nominal.
C19_Witness ==
    /\ call.op = "generate_recommendations"
    /\ Len(call.report) = 2
    /\ call.report[1].produced = 0
    /\ call.report[1].alerts # <<>>
    /\ call.report[2].produced = 2
    /\ call.report[2].alerts = <<>>
    /\ Len(call.ret) = 2

\* C20: over every operation of the bridge and the operator, a name of
\* bridge.layers stays in it and stays bound to the same layer object, and
\* the entries that layer held before the operation are a prefix of the
\* entries it holds after it.
C20_LayersAppendOnly ==
    [][\A name \in DOMAIN layers :
          /\ name \in DOMAIN layers'
          /\ layers'[name] = layers[name]
          /\ heap'[layers[name]].name = heap[layers[name]].name
          /\ IsPrefix(heap[layers[name]].entries,
                      heap'[layers'[name]].entries)]_vars

\* C20 witness: a layer that holds three entries, not all alike, after a
\* sync and a run_cycle that returned.
C20_Witness ==
    /\ call.op = "run_cycle"
    /\ call.status = "returned"
    /\ log # <<>>
    /\ \E name \in DOMAIN layers :
          /\ Len(heap[layers[name]].entries) = 3
          /\ heap[layers[name]].entries[1] # heap[layers[name]].entries[3]

\* What layer.all(), witness.log and export_layer show of the entries held
\* in store st and log lg over the objects objs.
ShownBy(st, lg, objs) ==
    [all |-> [name \in DOMAIN st.layers |->
                 LayerAll(Resolved(st, objs).heap, st.layers, name)],
     log |-> Deref(objs, lg),
     export |-> [name \in DOMAIN st.layers |->
                    BridgeExportLayer(Resolved(st, objs), name, NoSince).ret]]

\* C21: an assignment to a field of an entry by its holder leaves what the
\* layers, the witness log and export_layer show unchanged.
C21_EntryImmutable ==
    [][call'.op = "setattr" =>
          ShownBy(Store', log', objects') = ShownBy(Store, log, objects)]_vars

ReadOps == {"describe_functions", "export_layer", "get_layer", "all", "query"}

\* The arguments of a read.
ReadArgs(c) ==
    IF c.op \in {"query", "export_layer"} THEN <<c.name, c.since>>
    ELSE IF c.op \in {"get_layer", "all"} THEN <<c.name>>
    ELSE <<>>

\* C22: describe_functions, export_layer, get_layer, all and query leave
\* layers, catalog and witness log as they were; the same read with the same
\* arguments right after ends the same way with an equal result; and a change
\* to a list returned by all() or query() leaves every layer's entries as
\* they were.
C22_ReadsArePure ==
    [][/\ call'.op \in ReadOps =>
             /\ heap' = heap
             /\ layers' = layers
             /\ catalog' = catalog
             /\ log' = log
       /\ (/\ call.op \in ReadOps
           /\ call'.op = call.op
           /\ ReadArgs(call') = ReadArgs(call)) =>
             /\ call'.status = call.status
             /\ call'.ret = call.ret
       /\ call'.op = "list_mutation" =>
             /\ heap' = heap
             /\ layers' = layers]_vars

\* C22 witness: the list all() or query() returned for a layer with entries
\* was cleared by the caller.
C22_Witness ==
    /\ call.op = "list_mutation"
    /\ call.list.items = <<>>
    /\ Len(heap[layers[call.name]].entries) = MaxHeld

\* The records of execution_history for connector name.
HistoryOf(name) ==
    SelectSeq(execution_history, LAMBDA r : r.connector = name)

\* C23: under either policy a connector whose gather() raised has one record
\* in execution_history, with success = false, and no entries in results; a
\* call of execute_parallel that returns gives a map with a key for every
\* connector, empty for those that raised and holding what gather() returned
\* for the others; and the call raises only when the timeout has passed.
C23_GatherFailureIsolated ==
    /\ \A name \in PoolNames :
          (mcp_connectors[name] = "raises" /\ task[name] = "done") =>
              /\ Len(HistoryOf(name)) = 1
              /\ ~HistoryOf(name)[1].success
              /\ name \in DOMAIN results => results[name] = <<>>
    /\ pmain = "returned" =>
          /\ DOMAIN results = PoolNames
          /\ \A name \in PoolNames :
                results[name] = IF mcp_connectors[name] = "raises" THEN <<>>
                                ELSE PoolGather(name)
    /\ pmain \in {"unwinding", "raised"} => timedOut

\* C23 witness: the worker pool has run three connectors, the second of
\* which raised, and execute_parallel has returned.
C23_Witness ==
    /\ pmain = "returned"
    /\ config.parallel_execution
    /\ mcp_connectors = <<"returns", "raises", "returns">>
    /\ results[3] = <<EntryAlert>>

\* s is t with some elements left out.
RECURSIVE IsSubSeq(_, _)
IsSubSeq(s, t) ==
    IF s = <<>> THEN TRUE
    ELSE IF t = <<>> THEN FALSE
    ELSE IF Head(s) = Head(t) THEN IsSubSeq(Tail(s), Tail(t))
    ELSE IsSubSeq(s, Tail(t))

\* C24: when execute_orchestrated_intelligence_gathering has returned, the
\* entries each connector returned are held by the bridge layers they name,
\* those of one connector in the order it returned them, and the summary's
\* memory_integration_success is true.
C24_GatheredEntriesStored ==
    (/\ call.op = "execute_orchestrated_intelligence_gathering"
     /\ call.status = "returned") =>
        /\ call.memory_integration_success
        /\ \A name \in PoolNames, layer \in LayerNames :
              IsSubSeq(OfLayer(results[name], layer),
                       EntriesOf(heap, layers, layer))

\* apply_update is about to be invoked on the subscriber the loop of
\* broadcast is at.
Delivering ==
    /\ cycle.pc = "deliver"
    /\ cycle.si <= Len(subscribers)
    /\ ~IsOrigin(subscribers[cycle.si], cycle.node)

\* C25: when apply_update(e) is invoked during a cycle, e is the last entry
\* of the layer named e.layer and the last of witness.log, and of the list
\* fetch_updates() returned exactly the entries up to e have been stored and
\* logged.
C25_StoredBeforeFanOut ==
    Delivering =>
        LET e == CycleEntry
        IN  /\ e.layer \in DOMAIN layers
            /\ LayerAll(heap, layers, e.layer) # <<>>
            /\ LayerAll(heap, layers, e.layer)[
                   Len(LayerAll(heap, layers, e.layer))] = e
            /\ log # <<>>
            /\ log[Len(log)] = e
            /\ Stored = cycle.base.stored + cycle.at
            /\ Len(log) = cycle.base.log + cycle.at

\* C25 witness: apply_update is about to be invoked with the first of two
\* entries a node returned.
C25_Witness ==
    /\ Delivering
    /\ cycle.at = 1
    /\ Len(cycle.batch) = 2

\* C26: a call of cycle(nodes) comes to its end, and fetch_updates() is
\* called on a node at most as often as the node occurs in nodes, exactly as
\* often when cycle returns, also when apply_update handlers queue entries.
C26_SinglePass ==
    /\ [](cycle.pc # "idle" =>
             \A n \in Nodes :
                 /\ cycle.polls[n] <= Count(call.nodes, n)
                 /\ cycle.pc = "done" =>
                       cycle.polls[n] = Count(call.nodes, n))
    /\ (cycle.pc = "poll" ~> cycle.pc \in {"done", "raised"})

\* C26 witness: cycle has returned after polling n2 and then n1, and the
\* entry n2 queued when it was delivered n1's entry is still waiting.
C26_Witness ==
    /\ cycle.pc = "done"
    /\ call.nodes = <<"n2", "n1">>
    /\ cycle.polls["n2"] = 1
    /\ cycle.reactions > 0
    /\ outbound["n2"] = <<Reaction>>

\* C27: run_cycle leaves witness.log, the subscriber list and what every
\* node has received as they were, whatever it ingests; of the calls on
\* bridge and operator only sync changes the witness log.
C27_RunCycleNeverBroadcasts ==
    [][/\ call'.op = "run_cycle" =>
             /\ log' = log
             /\ subscribers' = subscribers
             /\ inbound' = inbound
       /\ log' # log => call'.op = "sync"]_vars

\* C27 witness: run_cycle has returned having ingested entries, on a bridge
\* whose subscribers had received the one entry of an earlier sync.
C27_Witness ==
    /\ call.op = "run_cycle"
    /\ call.status = "returned"
    /\ Len(call.report) > 0
    /\ Len(log) = 1
    /\ Stored = 3
    /\ Len(subscribers) = 2
    /\ \A i \in 1..Len(subscribers) : inbound[subscribers[i]] = log

\* What the audits of report count for layer name.
Audited(report, name) ==
    SumLen([i \in 1..Len(report) |->
               IF name \in DOMAIN report[i].layer_counts
               THEN Repeat(name, report[i].layer_counts[name])
               ELSE <<>>])

\* C28: a run_cycle() that returns a report has appended to each layer as
\* many entries as the audits of the report count for it in layer_counts,
\* to a layer no audit names none, whatever the layers held: entries equal
\* to ones held are added again.
C28_AuditStorageConservation ==
    [][(call'.op = "run_cycle" /\ call'.status = "returned") =>
          /\ \A i \in 1..Len(call'.report) :
                DOMAIN call'.report[i].layer_counts \subseteq DOMAIN layers'
          /\ \A name \in LayerNames :
                /\ IsPrefix(EntriesOf(heap, layers, name),
                            EntriesOf(heap', layers', name))
                /\ Len(EntriesOf(heap', layers', name)) =
                       Len(EntriesOf(heap, layers, name))
                       + Audited(call'.report, name)]_vars

\* C28 witness: the third run of the one connector ALERT, which returns the
\* same payload each time, has left three equal entries in its layer.
C28_Witness ==
    /\ call.op = "run_cycle"
    /\ call.status = "returned"
    /\ connectors = <<"k2">>
    /\ EntriesOf(heap, layers, AlertsLayer) =
           <<EntryAlert, EntryAlert, EntryAlert>>

\* C29: every key of bridge.layers has a non-whitespace character, in every
\* state register_layer, add, sync and run_cycle lead to from an empty
\* bridge.
C29_NoBlankLayer ==
    \A name \in DOMAIN layers : HasNonSpace(name)

\* The caller's objects as the caller sees them: those the bridge holds
\* are the bridge's, the others are as they were passed.
SuppliedLayers == IF given.layers.shared THEN layers ELSE given.layers.value
SuppliedCatalog ==
    IF given.catalog.shared THEN catalog ELSE given.catalog.value
SuppliedWitnesses ==
    IF given.witnesses.shared
    THEN [log |-> log, subscribers |-> subscribers]
    ELSE given.witnesses.value

\* C30: a bridge constructed with a layers map, a catalog or a witness
\* network of the caller holds that very object, empty or not, so that the
\* caller's map shows the bridge's layers, the caller's catalog the bridge's
\* specs and the caller's network the bridge's log and subscribers; each
\* layer passed at construction has its memory.fetch spec.
C30_SuppliedObjectsUsed ==
    given.built =>
        /\ given.layers.passed =>
              given.layers.shared /\ SuppliedLayers = layers
        /\ given.catalog.passed =>
              given.catalog.shared /\ SuppliedCatalog = catalog
        /\ given.witnesses.passed =>
              /\ given.witnesses.shared
              /\ SuppliedWitnesses = [log |-> log, subscribers |-> subscribers]
        /\ given.layers.passed =>
              \A name \in DOMAIN given.layers.value :
                  CatalogIndex(catalog, LayerFunctionSpec(name).name) # {}

====
